---- MODULE Spec2Model ----
(***************************************************************************)
(* pipeflow: the streaming pipeline executor (Pipeline.run), the transform *)
(* stages it chains, the record validator, the loader calls it makes and   *)
(* the CLI `run` command around it.                                        *)
(***************************************************************************)
EXTENDS Integers, Sequences, FiniteSets, TLC

(***************************************************************************)
(* Bounds                                                                  *)
(***************************************************************************)
MaxRecords == 4
MaxBatch == 2
MaxRuns == 2
MaxDedupInputs == 3
MaxOperands == 3
MaxLoaderCalls == 3
MaxPages == 2

(***************************************************************************)
(* Values and records.  A value is None, an int or a str; a record is a    *)
(* function from the field names it holds to values (a Python dict).       *)
(***************************************************************************)
NoneV == [t |-> "none", n |-> 0, s |-> ""]
IntV(i) == [t |-> "int", n |-> i, s |-> ""]
StrV(x) == [t |-> "str", n |-> 0, s |-> x]

HasField(rec, f) == f \in DOMAIN rec

\* dict.get(k): the value, or None when the key is missing
Get(rec, f) == IF HasField(rec, f) THEN rec[f] ELSE NoneV

\* The records an extractor yields in the model.
RecordPool ==
    { [k |-> IntV(1), v |-> IntV(1)],
      [k |-> IntV(1), v |-> IntV(0)],
      [k |-> IntV(2), v |-> StrV("1")],
      [k |-> NoneV,   v |-> IntV(1)],
      [v |-> IntV(1)],
      [k |-> IntV(2), v |-> StrV("x")] }

(***************************************************************************)
(* Expressions.  The values an expression computes are the values of a     *)
(* record plus bools, the builtin functions and opaque objects (a class, a *)
(* bound method, the builtin table itself).                                *)
(***************************************************************************)
BoolV(b) == [t |-> "bool", n |-> IF b THEN 1 ELSE 0, s |-> ""]
FuncV(name) == [t |-> "func", n |-> 0, s |-> name]
ObjV(what) == [t |-> "obj", n |-> 0, s |-> what]

\* bool(x): Python truthiness
Truthy(val) ==
    IF val.t = "none" THEN FALSE
    ELSE IF val.t \in {"bool", "int"} THEN val.n # 0
    ELSE IF val.t = "str" THEN val.s # ""
    ELSE TRUE

\* bool is a subclass of int: both take part in arithmetic and ordering
IsNum(val) == val.t \in {"bool", "int"}

\* The strings of the model in Python's order (digits, upper case, lower case)
StrOrder == <<"", "1", "AB", "a", "ab", "b", "x">>
StrRank(x) == CHOOSE i \in 1..Len(StrOrder) : StrOrder[i] = x

\* The tree ast.parse returns.  id is a name, an attribute or an operator;
\* kids are the child nodes in evaluation order; ops are the operators of a
\* comparison chain.
Constant(val) == [kind |-> "Constant", id |-> "", val |-> val, kids |-> <<>>, ops |-> <<>>]
Name(id) == [kind |-> "Name", id |-> id, val |-> NoneV, kids |-> <<>>, ops |-> <<>>]
\* every other node: Attribute (id the attribute, kids the value), BoolOp
\* (id "and" or "or", kids the operands), Compare (kids the left operand and
\* the comparators, ops the operators), Call (kids the callee and the
\* arguments), IfExp (kids the test, the body, the orelse), BinOp (id the
\* operator, kids the operands), NamedExpr (id the target, kids the value)
Node(kind, id, kids, ops) ==
    [kind |-> kind, id |-> id, val |-> NoneV, kids |-> kids, ops |-> ops]

\* name.startswith("__") over the identifiers of the model
IsDunder(name) == name \in {"__class__", "__len__", "__builtins__", "__import__"}

\* The outcome of an evaluation: a value or an exception, with the trace of
\* what the evaluation touched (names looked up, attributes read, functions
\* and methods invoked) in the order it touched them.
Value(val, trace) == [out |-> "value", val |-> val, err |-> "", trace |-> trace]
Raise(err, trace) == [out |-> "raise", val |-> NoneV, err |-> err, trace |-> trace]
Ev(ev, id) == [ev |-> ev, id |-> id]

\* operator.lt / operator.ge / operator.eq on two values: <<the bool>>, or
\* <<>> for the TypeError of operands that cannot be ordered
CmpOp(op, a, b) ==
    IF op = "==" THEN <<IF IsNum(a) /\ IsNum(b) THEN a.n = b.n ELSE a = b>>
    ELSE IF IsNum(a) /\ IsNum(b) THEN <<IF op = "<" THEN a.n < b.n ELSE a.n >= b.n>>
    ELSE IF a.t = "str" /\ b.t = "str"
    THEN <<IF op = "<" THEN StrRank(a.s) < StrRank(b.s) ELSE StrRank(a.s) >= StrRank(b.s)>>
    ELSE <<>>

\* operator.add: ints add, strs concatenate (<<the value>>), anything else
\* is a TypeError (<<>>)
AddOp(a, b) ==
    IF IsNum(a) /\ IsNum(b) THEN <<IntV(a.n + b.n)>>
    ELSE IF a.t = "str" /\ b.t = "str" THEN <<StrV(a.s \o b.s)>>
    ELSE <<>>

\* str.upper / str.lower over the strings of the model
Upper(x) ==
    IF x = "ab" THEN "AB" ELSE IF x = "a" THEN "A" ELSE IF x = "b" THEN "B"
    ELSE IF x = "x" THEN "X" ELSE x
Lower(x) ==
    IF x = "AB" THEN "ab" ELSE IF x = "A" THEN "a" ELSE IF x = "B" THEN "b"
    ELSE IF x = "X" THEN "x" ELSE x

\* The methods of a value that the model knows: str has upper, lower,
\* startswith and isdigit; int has bit_length
HasMethod(val, m) ==
    \/ val.t = "str" /\ m \in {"upper", "lower", "startswith", "isdigit"}
    \/ val.t = "int" /\ m = "bit_length"

\* obj.m(*args) for a method the value has: <<the value>>, or <<>> for the
\* TypeError of a wrong argument list
CallMethod(val, m, args) ==
    IF m = "startswith"
    THEN IF Len(args) # 1 \/ args[1].t # "str" THEN <<>>
         ELSE <<BoolV(\E i \in 1..Len(StrOrder) : args[1].s \o StrOrder[i] = val.s)>>
    ELSE IF Len(args) # 0 THEN <<>>
    ELSE IF m = "upper" THEN <<StrV(Upper(val.s))>>
    ELSE IF m = "lower" THEN <<StrV(Lower(val.s))>>
    ELSE IF m = "isdigit" THEN <<BoolV(val.s = "1")>>
    ELSE <<IntV(IF val.n < 0 THEN 1 ELSE IF val.n > 1 THEN 2 ELSE val.n)>>

\* getattr(value, attr): <<a bound method>> or <<the class>>, or <<>> for
\* AttributeError
GetAttr(val, attr) ==
    IF attr = "__class__" THEN <<ObjV("type")>>
    ELSE IF HasMethod(val, attr) THEN <<ObjV("method")>>
    ELSE <<>>

\* len, str, int, bool, abs, str.upper and str.lower applied to the values of
\* the model: <<the value>>, or <<>> for the TypeError or ValueError of
\* arguments the function does not take
CallBuiltin(f, args) ==
    IF Len(args) # 1 THEN <<>>
    ELSE LET x == args[1]
         IN IF f \in {"len", "upper", "lower"}
            THEN IF x.t # "str" THEN <<>>
                 ELSE IF f = "len" THEN <<IntV(Len(x.s))>>
                 ELSE <<StrV(IF f = "upper" THEN Upper(x.s) ELSE Lower(x.s))>>
            ELSE IF f = "str"
            THEN IF x.t = "str" THEN <<x>>
                 ELSE IF x.t = "int" THEN <<StrV(ToString(x.n))>>
                 ELSE IF x.t = "bool" THEN <<StrV(IF x.n = 1 THEN "True" ELSE "False")>>
                 ELSE IF x.t = "none" THEN <<StrV("None")>>
                 ELSE <<StrV("<object>")>>
            ELSE IF f = "int"
            THEN IF IsNum(x) THEN <<IntV(x.n)>>
                 ELSE IF x.t = "str" /\ x.s \in {"0", "1", "2"}
                 THEN <<IntV(IF x.s = "0" THEN 0 ELSE IF x.s = "1" THEN 1 ELSE 2)>>
                 ELSE <<>>
            ELSE IF f = "bool" THEN <<BoolV(Truthy(x))>>
            ELSE IF IsNum(x) THEN <<IntV(IF x.n < 0 THEN 0 - x.n ELSE x.n)>>
            ELSE <<>>

(***************************************************************************)
(* lib/safe_eval.py: the restricted evaluator                              *)
(***************************************************************************)
SAFE_STR_METHODS ==
    {"lower", "upper", "strip", "startswith", "endswith",
     "lstrip", "rstrip", "title", "replace", "split"}

SAFE_BUILTINS ==
    [f \in {"len", "str", "int", "float", "bool", "abs", "min", "max", "round"} |-> FuncV(f)]
    @@ ("True" :> BoolV(TRUE) @@ "False" :> BoolV(FALSE) @@ "None" :> NoneV)

\* the names visit_Call refuses before it looks at the builtin table
BlockedCalls ==
    {"eval", "exec", "compile", "type", "__import__", "globals", "locals",
     "getattr", "setattr", "delattr", "open", "input", "breakpoint"}

\* mutant: a name bound in the variables is callable too
SafeCallableOrBound(name, variables) ==
    \/ name \in DOMAIN SAFE_BUILTINS /\ SAFE_BUILTINS[name].t = "func"
    \/ name \in DOMAIN variables

\* func = _SAFE_BUILTINS.get(func_name); func is not None and callable(func)
SafeCallable(name, variables) ==
    name \in DOMAIN SAFE_BUILTINS /\ SAFE_BUILTINS[name].t = "func"

\* mutant: any method the receiver has is allowed
StrMethodAllowedAny(obj, m) == HasMethod(obj, m)

\* isinstance(obj, str) and method_name in _SAFE_STR_METHODS
StrMethodAllowed(obj, m) == obj.t = "str" /\ m \in SAFE_STR_METHODS

\* mutant: no operand decides, every operand is evaluated
BoolOpDecidesNever(op, val) == FALSE

\* visit_BoolOp: `if not result: return result` / `if result: return result`
BoolOpDecides(op, val) ==
    \/ op = "and" /\ ~Truthy(val)
    \/ op = "or" /\ Truthy(val)

\* mutant: the left comparand of a chain is never advanced
CompareLeftKept(left, right) == left

\* visit_Compare: `left = right`
CompareLeft(left, right) == right

RECURSIVE visit(_, _)
RECURSIVE visit_each(_, _, _, _)
RECURSIVE BoolOpLoop(_, _, _, _, _, _)
RECURSIVE CompareLoop(_, _, _, _, _)

\* [self.visit(a) for a in nodes]: the values left to right, or the first
\* exception
visit_each(nodes, variables, vals, trace) ==
    IF nodes = <<>>
    THEN [out |-> "value", vals |-> vals, err |-> "", trace |-> trace]
    ELSE LET r == visit(Head(nodes), variables)
         IN IF r.out = "raise"
            THEN [out |-> "raise", vals |-> vals, err |-> r.err, trace |-> trace \o r.trace]
            ELSE visit_each(Tail(nodes), variables, Append(vals, r.val), trace \o r.trace)

\* the for loop of visit_BoolOp from the i-th operand on
BoolOpLoop(op, values, variables, i, result, trace) ==
    IF i > Len(values) THEN Value(result, trace)
    ELSE LET r == visit(values[i], variables)
         IN IF r.out = "raise" THEN Raise(r.err, trace \o r.trace)
            ELSE IF BoolOpDecides(op, r.val) THEN Value(r.val, trace \o r.trace)
            ELSE BoolOpLoop(op, values, variables, i + 1, r.val, trace \o r.trace)

visit_BoolOp(node, variables) ==
    IF node.id \notin {"and", "or"} THEN Raise("ValueError", <<>>)
    ELSE BoolOpLoop(node.id, node.kids, variables, 1, BoolV(node.id = "and"), <<>>)

\* the for loop of visit_Compare from the i-th operator on; kids[i + 1] is
\* its comparator
CompareLoop(node, variables, i, left, trace) ==
    IF i > Len(node.ops) THEN Value(BoolV(TRUE), trace)
    ELSE IF node.ops[i] \notin {"<", ">=", "=="} THEN Raise("ValueError", trace)
    ELSE LET r == visit(node.kids[i + 1], variables)
         IN IF r.out = "raise" THEN Raise(r.err, trace \o r.trace)
            ELSE IF CmpOp(node.ops[i], left, r.val) = <<>>
                 THEN Raise("TypeError", trace \o r.trace)
            ELSE IF ~CmpOp(node.ops[i], left, r.val)[1]
                 THEN Value(BoolV(FALSE), trace \o r.trace)
            ELSE CompareLoop(node, variables, i + 1, CompareLeft(left, r.val),
                             trace \o r.trace)

visit_Compare(node, variables) ==
    LET l == visit(node.kids[1], variables)
    IN IF l.out = "raise" THEN l
       ELSE CompareLoop(node, variables, 1, l.val, l.trace)

visit_Name(node, variables) ==
    IF node.id \in DOMAIN SAFE_BUILTINS
    THEN Value(SAFE_BUILTINS[node.id], <<Ev("name", node.id)>>)
    ELSE IF node.id \in DOMAIN variables
    THEN Value(variables[node.id], <<Ev("name", node.id)>>)
    ELSE Raise("NameError", <<Ev("name", node.id)>>)

visit_Attribute(node, variables) ==
    IF IsDunder(node.id) THEN Raise("ValueError", <<>>)
    ELSE LET r == visit(node.kids[1], variables)
         IN IF r.out = "raise" THEN r
            ELSE IF GetAttr(r.val, node.id) = <<>>
                 THEN Raise("AttributeError", Append(r.trace, Ev("getattr", node.id)))
            ELSE Value(GetAttr(r.val, node.id)[1], Append(r.trace, Ev("getattr", node.id)))

visit_BinOp(node, variables) ==
    IF node.id # "+" THEN Raise("ValueError", <<>>)
    ELSE LET r == visit_each(node.kids, variables, <<>>, <<>>)
         IN IF r.out = "raise" THEN Raise(r.err, r.trace)
            ELSE IF AddOp(r.vals[1], r.vals[2]) = <<>> THEN Raise("TypeError", r.trace)
            ELSE Value(AddOp(r.vals[1], r.vals[2])[1], r.trace)

visit_IfExp(node, variables) ==
    LET c == visit(node.kids[1], variables)
    IN IF c.out = "raise" THEN c
       ELSE LET r == visit(node.kids[IF Truthy(c.val) THEN 2 ELSE 3], variables)
            IN [r EXCEPT !.trace = c.trace \o @]

\* visit_Call, the branch of a method call: node.func is an Attribute
visit_MethodCall(func, args, variables) ==
    IF IsDunder(func.id) THEN Raise("ValueError", <<>>)
    ELSE LET o == visit(func.kids[1], variables)
         IN IF o.out = "raise" THEN o
            ELSE IF ~StrMethodAllowed(o.val, func.id) THEN Raise("ValueError", o.trace)
            ELSE LET a == visit_each(args, variables, <<>>, o.trace)
                 IN IF a.out = "raise" THEN Raise(a.err, a.trace)
                    ELSE IF ~HasMethod(o.val, func.id) \/ CallMethod(o.val, func.id, a.vals) = <<>>
                         THEN Raise("TypeError", Append(a.trace, Ev("method", func.id)))
                    ELSE Value(CallMethod(o.val, func.id, a.vals)[1],
                               Append(a.trace, Ev("method", func.id)))

\* visit_Call, the branch of a free function call: node.func is a Name
visit_FunctionCall(func, args, variables) ==
    IF func.id \in BlockedCalls THEN Raise("ValueError", <<>>)
    ELSE IF ~SafeCallable(func.id, variables) THEN Raise("ValueError", <<>>)
    ELSE LET a == visit_each(args, variables, <<>>, <<>>)
         IN IF a.out = "raise" THEN Raise(a.err, a.trace)
            ELSE IF CallBuiltin(func.id, a.vals) = <<>>
                 THEN Raise("TypeError", Append(a.trace, Ev("call", func.id)))
            ELSE Value(CallBuiltin(func.id, a.vals)[1], Append(a.trace, Ev("call", func.id)))

visit_Call(node, variables) ==
    IF node.kids[1].kind = "Attribute"
    THEN visit_MethodCall(node.kids[1], Tail(node.kids), variables)
    ELSE IF node.kids[1].kind = "Name"
    THEN visit_FunctionCall(node.kids[1], Tail(node.kids), variables)
    ELSE Raise("ValueError", <<>>)

\* NodeVisitor.visit: dispatch on the node class; generic_visit raises on
\* every class without a visit_ method
visit(node, variables) ==
    IF node.kind = "Constant" THEN Value(node.val, <<>>)
    ELSE IF node.kind = "Name" THEN visit_Name(node, variables)
    ELSE IF node.kind = "Attribute" THEN visit_Attribute(node, variables)
    ELSE IF node.kind = "BoolOp" THEN visit_BoolOp(node, variables)
    ELSE IF node.kind = "Compare" THEN visit_Compare(node, variables)
    ELSE IF node.kind = "BinOp" THEN visit_BinOp(node, variables)
    ELSE IF node.kind = "IfExp" THEN visit_IfExp(node, variables)
    ELSE IF node.kind = "Call" THEN visit_Call(node, variables)
    ELSE Raise("ValueError", <<>>)

(***************************************************************************)
(* Python's eval(source, {"__builtins__": builtins}, env): the evaluator   *)
(* the filter and derive stages call.  env is the locals mapping, which an *)
(* assignment expression updates in place.                                 *)
(***************************************************************************)
PyValue(val, env) == [out |-> "value", val |-> val, err |-> "", env |-> env]
PyRaise(err, env) == [out |-> "raise", val |-> NoneV, err |-> err, env |-> env]

\* env[name] = val on a dict
SetField(env, name, val) ==
    [f \in DOMAIN env \cup {name} |-> IF f = name THEN val ELSE env[f]]

RECURSIVE PyEval(_, _, _)
RECURSIVE PyEvalEach(_, _, _, _)
RECURSIVE PyBoolOpLoop(_, _, _, _)
RECURSIVE PyCompareLoop(_, _, _, _, _)

PyEvalEach(nodes, builtins, env, vals) ==
    IF nodes = <<>> THEN [out |-> "value", vals |-> vals, err |-> "", env |-> env]
    ELSE LET r == PyEval(Head(nodes), builtins, env)
         IN IF r.out = "raise"
            THEN [out |-> "raise", vals |-> vals, err |-> r.err, env |-> r.env]
            ELSE PyEvalEach(Tail(nodes), builtins, r.env, Append(vals, r.val))

\* `a and b and ...` / `a or b or ...`: the first deciding operand, else the last
PyBoolOpLoop(node, builtins, env, i) ==
    LET r == PyEval(node.kids[i], builtins, env)
    IN IF r.out = "raise" \/ i = Len(node.kids) THEN r
       ELSE IF Truthy(r.val) = (node.id = "or") THEN r
       ELSE PyBoolOpLoop(node, builtins, r.env, i + 1)

\* `a < b < ...`: pairwise, each comparand evaluated once
PyCompareLoop(node, builtins, env, i, left) ==
    IF i > Len(node.ops) THEN PyValue(BoolV(TRUE), env)
    ELSE LET r == PyEval(node.kids[i + 1], builtins, env)
         IN IF r.out = "raise" THEN r
            ELSE IF CmpOp(node.ops[i], left, r.val) = <<>> THEN PyRaise("TypeError", r.env)
            ELSE IF ~CmpOp(node.ops[i], left, r.val)[1] THEN PyValue(BoolV(FALSE), r.env)
            ELSE PyCompareLoop(node, builtins, r.env, i + 1, r.val)

\* A name is looked up in the locals, then in the globals (which hold
\* "__builtins__" only), then in the builtins.  A method call recv.m(args)
\* evaluates the receiver, looks the attribute up, evaluates the arguments
\* and calls; a call f(args) evaluates the callee, then the arguments, and
\* calling a value that is not a function is a TypeError.  An assignment
\* expression binds its target in the locals.
PyEval(node, builtins, env) ==
    IF node.kind = "Constant" THEN PyValue(node.val, env)
    ELSE IF node.kind = "Name"
    THEN IF node.id \in DOMAIN env THEN PyValue(env[node.id], env)
         ELSE IF node.id = "__builtins__" THEN PyValue(ObjV("dict"), env)
         ELSE IF node.id \in DOMAIN builtins THEN PyValue(builtins[node.id], env)
         ELSE PyRaise("NameError", env)
    ELSE IF node.kind = "Attribute"
    THEN LET r == PyEval(node.kids[1], builtins, env)
         IN IF r.out = "raise" THEN r
            ELSE IF GetAttr(r.val, node.id) = <<>> THEN PyRaise("AttributeError", r.env)
            ELSE PyValue(GetAttr(r.val, node.id)[1], r.env)
    ELSE IF node.kind = "BoolOp" THEN PyBoolOpLoop(node, builtins, env, 1)
    ELSE IF node.kind = "Compare"
    THEN LET l == PyEval(node.kids[1], builtins, env)
         IN IF l.out = "raise" THEN l
            ELSE PyCompareLoop(node, builtins, l.env, 1, l.val)
    ELSE IF node.kind = "BinOp"
    THEN LET r == PyEvalEach(node.kids, builtins, env, <<>>)
         IN IF r.out = "raise" THEN PyRaise(r.err, r.env)
            ELSE IF AddOp(r.vals[1], r.vals[2]) = <<>> THEN PyRaise("TypeError", r.env)
            ELSE PyValue(AddOp(r.vals[1], r.vals[2])[1], r.env)
    ELSE IF node.kind = "IfExp"
    THEN LET c == PyEval(node.kids[1], builtins, env)
         IN IF c.out = "raise" THEN c
            ELSE PyEval(node.kids[IF Truthy(c.val) THEN 2 ELSE 3], builtins, c.env)
    ELSE IF node.kind = "Call" /\ node.kids[1].kind = "Attribute"
    THEN LET m == node.kids[1].id
             o == PyEval(node.kids[1].kids[1], builtins, env)
             a == PyEvalEach(Tail(node.kids), builtins, o.env, <<>>)
         IN IF o.out = "raise" THEN o
            ELSE IF ~HasMethod(o.val, m) THEN PyRaise("AttributeError", o.env)
            ELSE IF a.out = "raise" THEN PyRaise(a.err, a.env)
            ELSE IF CallMethod(o.val, m, a.vals) = <<>> THEN PyRaise("TypeError", a.env)
            ELSE PyValue(CallMethod(o.val, m, a.vals)[1], a.env)
    ELSE IF node.kind = "Call"
    THEN LET f == PyEval(node.kids[1], builtins, env)
             a == PyEvalEach(Tail(node.kids), builtins, f.env, <<>>)
         IN IF f.out = "raise" THEN f
            ELSE IF a.out = "raise" THEN PyRaise(a.err, a.env)
            ELSE IF f.val.t # "func" \/ CallBuiltin(f.val.s, a.vals) = <<>>
            THEN PyRaise("TypeError", a.env)
            ELSE PyValue(CallBuiltin(f.val.s, a.vals)[1], a.env)
    ELSE LET r == PyEval(node.kids[1], builtins, env)
         IN IF r.out = "raise" THEN r
            ELSE PyValue(r.val, SetField(r.env, node.id, r.val))

(***************************************************************************)
(* Source text.  An expression string is a sequence of tokens; an operator *)
(* written with '=' is the tokens of its characters (">", "="), so that    *)
(* splitting a string at its first '=' is what str.split does.  No input   *)
(* of the model has a space inside an operator.                            *)
(***************************************************************************)
Identifiers ==
    {"k", "v", "t", "y", "len", "str", "int", "bool", "upper", "open",
     "bit_length", "isdigit", "__class__", "__builtins__"}

\* the node of a name or of a literal, <<>> for any other token
Atom(tok) ==
    IF tok \in Identifiers THEN <<Name(tok)>>
    ELSE IF tok \in {"0", "1", "2"}
    THEN <<Constant(IntV(IF tok = "0" THEN 0 ELSE IF tok = "1" THEN 1 ELSE 2))>>
    ELSE IF tok = "'x'" THEN <<Constant(StrV("x"))>>
    ELSE IF tok = "True" THEN <<Constant(BoolV(TRUE))>>
    ELSE IF tok = "None" THEN <<Constant(NoneV)>>
    ELSE <<>>

\* str.strip(): the string without its leading and trailing spaces
Strip(toks) ==
    LET inked == {i \in 1..Len(toks) : toks[i] # " "}
    IN IF inked = {} THEN <<>>
       ELSE SubSeq(toks, CHOOSE i \in inked : \A j \in inked : i <= j,
                         CHOOSE i \in inked : \A j \in inked : i >= j)

\* the string of a token sequence
RECURSIVE Text(_)
Text(toks) == IF toks = <<>> THEN "" ELSE Head(toks) \o Text(Tail(toks))

\* ast.parse(source, mode="eval") on the expressions of the model: <<tree>>,
\* or <<>> for a SyntaxError; the spaces between tokens are skipped
Parse(source) ==
    LET w == SelectSeq(source, LAMBDA tok : tok # " ")
        atom(i) == Atom(w[i])[1]
        atoms(is) == \A i \in is : Atom(w[i]) # <<>>
    IN IF Len(w) = 1 /\ atoms({1}) THEN <<atom(1)>>
       ELSE IF Len(w) = 3 /\ atoms({1, 3}) /\ w[2] = "+"
       THEN <<Node("BinOp", "+", <<atom(1), atom(3)>>, <<>>)>>
       ELSE IF Len(w) = 3 /\ atoms({1, 3}) /\ w[2] = "<"
       THEN <<Node("Compare", "", <<atom(1), atom(3)>>, <<"<">>)>>
       ELSE IF Len(w) = 4 /\ atoms({1, 4}) /\ w[2] \in {">", "="} /\ w[3] = "="
       THEN <<Node("Compare", "", <<atom(1), atom(4)>>,
                   <<IF w[2] = ">" THEN ">=" ELSE "==">>)>>
       ELSE IF Len(w) = 3 /\ atoms({1}) /\ w[2] = "." /\ w[3] \in Identifiers
       THEN <<Node("Attribute", w[3], <<atom(1)>>, <<>>)>>
       ELSE IF Len(w) = 4 /\ w[1] \in Identifiers /\ w[2] = "(" /\ atoms({3}) /\ w[4] = ")"
       THEN <<Node("Call", "", <<Name(w[1]), atom(3)>>, <<>>)>>
       ELSE IF Len(w) = 5 /\ atoms({1}) /\ w[2] = "." /\ w[3] \in Identifiers
               /\ w[4] = "(" /\ w[5] = ")"
       THEN <<Node("Call", "", <<Node("Attribute", w[3], <<atom(1)>>, <<>>)>>, <<>>)>>
       ELSE IF Len(w) = 6 /\ w[1] = "(" /\ w[2] \in Identifiers /\ w[3] = ":" /\ w[4] = "="
               /\ atoms({5}) /\ w[6] = ")"
       THEN <<Node("NamedExpr", w[2], <<atom(5)>>, <<>>)>>
       ELSE <<>>

\* safe_eval(expression, variables): SyntaxError becomes ValueError
safe_eval(expression, variables) ==
    IF Parse(expression) = <<>> THEN Raise("ValueError", <<>>)
    ELSE visit(Parse(expression)[1], variables)

(***************************************************************************)
(* Transform stages                                                        *)
(***************************************************************************)
NoColumns == [c \in {} |-> ""]

\* TransformConfig of a cast stage: columns maps a column to a type name
CastCfg(cols) ==
    [type |-> "cast", columns |-> cols, field |-> "", min |-> 0, key |-> <<>>, source |-> <<>>]
\* TransformConfig of a filter stage with the condition "<field> >= <min>"
FilterCfg(f, m) ==
    [type |-> "filter", columns |-> NoColumns, field |-> f, min |-> m, key |-> <<>>,
     source |-> <<>>]
\* TransformConfig of a deduplicate stage
DedupCfg(key) ==
    [type |-> "deduplicate", columns |-> NoColumns, field |-> "", min |-> 0, key |-> key,
     source |-> <<>>]
\* A TransformConfig whose type build_transforms does not know
BogusCfg ==
    [type |-> "bogus", columns |-> NoColumns, field |-> "", min |-> 0, key |-> <<>>,
     source |-> <<>>]
\* TransformConfig of a filter stage whose condition is the text source
\* (<<>> when the config gives no condition)
FilterTextCfg(source) ==
    [type |-> "filter", columns |-> NoColumns, field |-> "", min |-> 0, key |-> <<>>,
     source |-> source]
\* TransformConfig of a derive stage whose expression is the text source
\* (<<>> when the config gives no expression)
DeriveCfg(source) ==
    [type |-> "derive", columns |-> NoColumns, field |-> "", min |-> 0, key |-> <<>>,
     source |-> source]

KnownTypes == {"rename", "cast", "filter", "derive", "deduplicate"}

\* Outcome of one stage application: a record, None (dropped) or an exception
Kept(rec) == [out |-> "record", rec |-> <<rec>>]
Dropped == [out |-> "none", rec |-> <<>>]
Raised == [out |-> "raise", rec |-> <<>>]

\* int(x) of CAST_MAP for the values of the model: defined on ints and on
\* numeric strings, ValueError otherwise
IntCastable(val) == val.t = "int" \/ (val.t = "str" /\ val.s \in {"0", "1", "2"})
IntCast(val) ==
    IF val.t = "int" THEN val
    ELSE IF val.s = "0" THEN IntV(0)
    ELSE IF val.s = "1" THEN IntV(1)
    ELSE IntV(2)

\* str(x) of CAST_MAP
StrCast(val) ==
    IF val.t \in {"str", "float"} THEN StrV(val.s)
    ELSE IF val.n = 0 THEN StrV("0")
    ELSE IF val.n = 1 THEN StrV("1")
    ELSE StrV("2")

\* The columns CastTransform.apply coerces: configured, present, not None
CastCols(columns, rec) ==
    {c \in DOMAIN columns : HasField(rec, c) /\ rec[c] # NoneV}

CastOne(typeName, val) == IF typeName = "int" THEN IntCast(val) ELSE StrCast(val)

CastFails(typeName, val) ==
    \/ typeName \notin {"int", "str"}
    \/ typeName = "int" /\ ~IntCastable(val)

CastApply(columns, rec) ==
    IF \E c \in CastCols(columns, rec) : CastFails(columns[c], rec[c])
    THEN Raised
    ELSE Kept([f \in DOMAIN rec |->
                 IF f \in CastCols(columns, rec) THEN CastOne(columns[f], rec[f]) ELSE rec[f]])

\* dict(items): the dict a sequence of items <<key, value>> builds, without
\* its order
Dict(items) ==
    [k \in {items[i][1] : i \in 1..Len(items)} |->
        items[CHOOSE i \in 1..Len(items) : items[i][1] = k /\
                 \A j \in 1..Len(items) : items[j][1] = k => j <= i][2]]

\* The exception CastTransform.apply raises, for a configuration given as
\* its items <<column, type name>> in iteration order: the loop stops at the
\* first column whose cast fails.  An unknown type name is a ValueError
\* naming the type; a ValueError or TypeError of the caster is raised again
\* as a ValueError whose message names the column, repr(result[col]) (the
\* assignment did not happen, so the original value) and the type name;
\* int(inf) raises OverflowError, which the except clause lets through.
CastError(items, rec) ==
    LET failing == {i \in 1..Len(items) :
                       /\ items[i][1] \in CastCols(Dict(items), rec)
                       /\ CastFails(items[i][2], rec[items[i][1]])}
        first == CHOOSE i \in failing : \A j \in failing : i <= j
        col == items[first][1]
        type_name == items[first][2]
    IN IF type_name \notin {"int", "str"}
       THEN [type |-> "ValueError", column |-> "", value |-> <<>>, target |-> type_name]
       ELSE IF rec[col].t = "float"
       THEN [type |-> "OverflowError", column |-> "", value |-> <<>>, target |-> ""]
       ELSE [type |-> "ValueError", column |-> col, value |-> <<rec[col]>>,
             target |-> type_name]

\* eval("<field> >= <min>", safe_globals, record): NameError when the record
\* has no such field, TypeError when the value is not a number
ConditionRaises(f, rec) == ~HasField(rec, f) \/ rec[f].t # "int"
ConditionValue(f, m, rec) == rec[f].n >= m

FilterApply(f, m, rec) ==
    IF ConditionRaises(f, rec) THEN Raised
    ELSE IF ConditionValue(f, m, rec) THEN Kept(rec)
    ELSE Dropped

\* mutant: the key tuple built from the key fields the record holds only
RECURSIVE KeyValuesPresent(_, _)
KeyValuesPresent(key, rec) ==
    IF key = <<>> THEN <<>>
    ELSE (IF HasField(rec, Head(key)) THEN <<rec[Head(key)]>> ELSE <<>>)
         \o KeyValuesPresent(Tail(key), rec)

\* tuple(record.get(k) for k in self.key)
KeyValues(key, rec) == [i \in 1..Len(key) |-> Get(rec, key[i])]

DedupApply(key, seenKeys, rec) ==
    IF KeyValues(key, rec) \in seenKeys THEN Dropped ELSE Kept(rec)

\* mutant: the key is not added to _seen
DedupSeenNothing(key, seenKeys, rec) == seenKeys

DedupSeen(key, seenKeys, rec) == seenKeys \cup {KeyValues(key, rec)}

\* RenameTransform.apply: {self.mapping.get(k, k): v for k, v in record.items()}.
\* The record and the mapping are dicts whose iteration order matters: each
\* is the sequence of its items <<key, value>> in insertion order.  The
\* comprehension inserts the items of the record one by one, in the order of
\* the record; an insertion under a key the result already holds replaces
\* the value and leaves the key where it is.
RECURSIVE RenameApply(_, _, _)
RenameApply(mapping, items, result) ==
    IF items = <<>> THEN result
    ELSE LET k == Head(items)[1]
             hits == {i \in 1..Len(mapping) : mapping[i][1] = k}
             name == IF hits = {} THEN k ELSE mapping[CHOOSE i \in hits : TRUE][2]
             held == {i \in 1..Len(result) : result[i][1] = name}
         IN RenameApply(mapping, Tail(items),
                IF held = {} THEN Append(result, <<name, Head(items)[2]>>)
                ELSE [i \in 1..Len(result) |->
                        IF i \in held THEN <<name, Head(items)[2]>> ELSE result[i]])

\* The builtins FilterTransform.apply hands to eval
FILTER_BUILTINS ==
    [f \in {"len", "str", "int", "float", "abs", "min", "max"} |-> FuncV(f)]
    @@ ("True" :> BoolV(TRUE) @@ "False" :> BoolV(FALSE) @@ "None" :> NoneV)

\* The builtins DeriveTransform.apply hands to eval
DERIVE_BUILTINS ==
    [f \in {"len", "str", "int", "float", "round", "abs", "min", "max", "upper", "lower"}
        |-> FuncV(f)]

\* eval(self.condition, safe_globals, record): the record is the locals
FilterEval(condition, rec) ==
    IF Parse(condition) = <<>> THEN PyRaise("SyntaxError", rec)
    ELSE PyEval(Parse(condition)[1], FILTER_BUILTINS, rec)

\* FilterTransform.apply: `return record if result else None`; any exception
\* of the evaluation is raised as ValueError
FilterTextApply(condition, rec) ==
    LET r == FilterEval(condition, rec)
    IN IF r.out = "raise" THEN Raised
       ELSE IF Truthy(r.val) THEN Kept(r.env)
       ELSE Dropped

\* DeriveTransform.__init__: `if "=" not in expression: raise ValueError`
DeriveInitFails(expression) == \A i \in 1..Len(expression) : expression[i] # "="

\* expression.split("=", 1): the position of the first '='
FirstEq(expression) ==
    CHOOSE i \in 1..Len(expression) :
        expression[i] = "=" /\ \A j \in 1..(i - 1) : expression[j] # "="

\* mutant: the target is the text up to the last '='
DeriveTargetLast(expression) ==
    LET last == CHOOSE i \in 1..Len(expression) :
                    expression[i] = "=" /\ \A j \in (i + 1)..Len(expression) : expression[j] # "="
    IN Strip(SubSeq(expression, 1, last - 1))

\* self.target = parts[0].strip()
DeriveTarget(expression) == Strip(SubSeq(expression, 1, FirstEq(expression) - 1))
\* self.expr = parts[1].strip()
DeriveExpr(expression) ==
    Strip(SubSeq(expression, FirstEq(expression) + 1, Len(expression)))

\* eval(self.expr, safe_globals, result) with result = dict(record)
DeriveEval(expr, rec) ==
    IF Parse(expr) = <<>> THEN PyRaise("SyntaxError", rec)
    ELSE PyEval(Parse(expr)[1], DERIVE_BUILTINS, rec)

\* DeriveTransform.apply: result[self.target] = eval(...); return result
DeriveApply(target, expr, rec) ==
    LET r == DeriveEval(expr, rec)
    IN IF r.out = "raise" THEN Raised
       ELSE Kept(SetField(r.env, Text(target), r.val))

\* transform.apply(current) for the stage built from cfg; seenKeys is the
\* stage's _seen set (used by deduplicate only); a filter configured without
\* condition is built with the condition "True"
StageApply(cfg, seenKeys, rec) ==
    IF cfg.type = "cast" THEN CastApply(cfg.columns, rec)
    ELSE IF cfg.type = "filter"
    THEN IF cfg.field # "" THEN FilterApply(cfg.field, cfg.min, rec)
         ELSE FilterTextApply(IF cfg.source = <<>> THEN <<"True">> ELSE cfg.source, rec)
    ELSE IF cfg.type = "derive"
    THEN DeriveApply(DeriveTarget(cfg.source), DeriveExpr(cfg.source), rec)
    ELSE DedupApply(cfg.key, seenKeys, rec)

StageSeen(cfg, seenKeys, rec) ==
    IF cfg.type = "deduplicate" THEN DedupSeen(cfg.key, seenKeys, rec) ELSE seenKeys

(***************************************************************************)
(* Validator                                                               *)
(***************************************************************************)
\* One pydantic error of a required int field, or "" when the field is fine
FieldError(rec, f) ==
    IF ~HasField(rec, f) THEN "missing"
    ELSE IF rec[f].t = "none" THEN "int_type"
    ELSE IF ~IntCastable(rec[f]) THEN "int_parsing"
    ELSE ""

RECURSIVE FieldErrors(_, _)
FieldErrors(rec, fields) ==
    IF fields = <<>> THEN <<>>
    ELSE (IF FieldError(rec, Head(fields)) = "" THEN <<>>
          ELSE <<[field |-> Head(fields), type |-> FieldError(rec, Head(fields))]>>)
         \o FieldErrors(rec, Tail(fields))

\* RecordValidator.validate_record: the list of errors, empty if valid
ValidateRecord(fields, rec) == FieldErrors(rec, fields)

(***************************************************************************)
(* Pipeline configurations                                                 *)
(***************************************************************************)
CastV == CastCfg([c \in {"v"} |-> "int"])
FilterV == FilterCfg("v", 1)
DedupK == DedupCfg(<<"k">>)

\* config.transforms of the pipelines of the model
Chains ==
    << <<>>,
       <<FilterV>>,
       <<DedupK>>,
       <<CastV, FilterV>>,
       <<FilterV, DedupK>>,
       <<DedupK, FilterV>>,
       <<CastV, FilterV, DedupK>>,
       <<BogusCfg>> >>

\* The chains whose filter and derive stages are configured as text: a
\* derive without expression, without '=', with two '=', with an expression
\* that does not parse; a filter without condition and with a condition
\* that does not parse
TextChains ==
    << <<DeriveCfg(<<"t", " ", "=", " ", "v", "+", "1">>)>>,
       <<DeriveCfg(<<>>)>>,
       <<CastV, DeriveCfg(<<"v", "+", "1">>)>>,
       <<DeriveCfg(<<"t", " ", "=", " ", "v", "=", "=", "1">>)>>,
       <<FilterTextCfg(<<"v", " ", ">", "=", " ", "1">>), DeriveCfg(<<"v", "=", "k">>)>>,
       <<FilterTextCfg(<<"v", " ", ">", "=">>)>>,
       <<FilterTextCfg(<<>>), DeriveCfg(<<"t", "=", "v", "+">>)>> >>

\* config.validate: absent, or a model with the required int field k
NoValidate == [on |-> FALSE, fields |-> <<>>]
ValidateK == [on |-> TRUE, fields |-> <<"k">>]

\* config.load.batch_size: any int passes LoadConfig, negative ones too
BatchSizes == -1..MaxBatch

(***************************************************************************)
(* State                                                                   *)
(***************************************************************************)
VARIABLES
    config,         \* PipelineConfig: transforms, validate, batch_size, and the
                    \* loader: "concrete" for the loaders build_loader knows,
                    \* "protocol" for any other implementation of Loader
    pc,             \* position in _cmd_run / Pipeline.run
    metrics,        \* self.metrics (PipelineMetrics)
    current,        \* the record in the transform chain: <<rec>>, or <<>> for None
    stageIdx,       \* index of the next transform of the for loop
    seen,           \* seen[i]: the _seen set of transform i
    valid_records,  \* the batch
    exc,            \* the exception in flight ("" if none)
    closeCalls,     \* number of loader.close() calls
    result,         \* what run() returned: <<dict>>, or <<>>
    stdout,         \* what _cmd_run printed to stdout
    exitCode,       \* return value of _cmd_run (-1 while running)
    runs,           \* number of run() invocations on this Pipeline
    origin,         \* history: the current record as the extractor yielded it
    pulled,         \* history: records pulled from the extractor in this run
    fate,           \* history: fate[i] of the i-th record of this run
    applied,        \* history: indices of the stages applied to the current record
    batchIdx,       \* history: extraction index and source of each record of the batch
    loadCalls,      \* history: the load calls of this run
    dedup,          \* a DeduplicateTransform driven on its own: key, _seen, and
                    \* the history of the records applied and of the results
    stage,          \* a FilterTransform or DeriveTransform driven on its own: its
                    \* fields, the record last applied, the result and the
                    \* record as the call left it
    sandbox,        \* a safe_eval call: the tree of the expression, the
                    \* variables and the outcome
    loader,         \* a CSVWriterLoader driven on its own: its fields, the
                    \* output file, and the history of its calls
    extractor       \* an APIExtractor whose extract() is iterated on its own:
                    \* its fields, the position of the generator, and the
                    \* history of the pages fetched and the records yielded

vars == <<config, pc, metrics, current, stageIdx, seen, valid_records, exc,
          closeCalls, result, stdout, exitCode, runs, origin, pulled, fate,
          applied, batchIdx, loadCalls, dedup, stage, sandbox, loader, extractor>>

\* the variables of the stages driven on their own
unit == <<dedup, stage, sandbox, loader, extractor>>

\* the variables of a Pipeline and of the CLI command around it
pipeline == <<config, pc, metrics, current, stageIdx, seen, valid_records, exc,
              closeCalls, result, stdout, exitCode, runs, origin, pulled, fate,
              applied, batchIdx, loadCalls>>

\* DeduplicateTransform(key)
NewDedup(key) == [key |-> key, seen |-> {}, inputs |-> <<>>, outputs |-> <<>>]

\* no FilterTransform or DeriveTransform under test
NoStage ==
    [kind |-> "", phase |-> "idle", source |-> <<>>, target |-> <<>>, expr |-> <<>>,
     input |-> <<>>, result |-> <<>>, after |-> <<>>]

\* no safe_eval call under test
NoSandbox == [tree |-> <<>>, variables |-> <<>>, result |-> <<>>]

\* CSVWriterLoader(path), where no file is at the path: _file and _writer are
\* None (<<>> for the writer, else its fieldnames), nothing is on disk
\* (exists tells whether the file is there, disk is its content, buffer what
\* was written to _file and not flushed yet)
NewLoader ==
    [file |-> FALSE, writer |-> <<>>, header_written |-> FALSE,
     exists |-> FALSE, disk |-> <<>>, buffer |-> <<>>, calls |-> <<>>]

\* APIExtractor(url, pagination=pagination) with extract() called on it: the
\* generator has not run yet, its variable url (next) is the url of the
\* extractor.  A URL is its path with the offset and limit parameters of its
\* query (-1 when the query has none).
NewExtractor(pagination) ==
    [pagination |-> pagination,
     next |-> <<[path |-> "u", offset |-> -1, limit |-> -1]>>,
     pending |-> <<>>, fetched |-> <<>>, yielded |-> <<>>]

\* PipelineMetrics()
NewMetrics ==
    [records_extracted |-> 0, records_transformed |-> 0, records_valid |-> 0,
     records_invalid |-> 0, records_loaded |-> 0, errors |-> <<>>]

\* PipelineMetrics.to_dict (without duration_seconds)
to_dict(m) ==
    [records_extracted |-> m.records_extracted,
     records_transformed |-> m.records_transformed,
     records_valid |-> m.records_valid,
     records_invalid |-> m.records_invalid,
     records_loaded |-> m.records_loaded,
     error_count |-> Len(m.errors)]

\* Pipeline(config): the state after construction
PipelineInitOf(chains, loaderKind) ==
    /\ \E c \in 1..Len(chains), v \in {NoValidate, ValidateK}, b \in BatchSizes :
          config = [transforms |-> chains[c], validate |-> v, batch_size |-> b,
                    loader |-> loaderKind]
    /\ pc = "idle"
    /\ metrics = NewMetrics
    /\ current = <<>>
    /\ stageIdx = 1
    /\ seen = <<>>
    /\ valid_records = <<>>
    /\ exc = ""
    /\ closeCalls = 0
    /\ result = <<>>
    /\ stdout = <<>>
    /\ exitCode = -1
    /\ runs = 0
    /\ origin = <<>>
    /\ pulled = 0
    /\ fate = <<>>
    /\ applied = <<>>
    /\ batchIdx = <<>>
    /\ loadCalls = <<>>

PipelineInit == PipelineInitOf(Chains, "concrete")

Init ==
    /\ loader = NewLoader
    /\ extractor = NewExtractor(<<>>)
    /\ PipelineInit
    /\ dedup = NewDedup(<<>>)
    /\ stage = NoStage
    /\ sandbox = NoSandbox

(***************************************************************************)
(* Pipeline.run                                                            *)
(***************************************************************************)
\* mutant: the stages built in the reverse of the configured order
TransformsReversed ==
    [i \in 1..Len(config.transforms) |->
        config.transforms[Len(config.transforms) + 1 - i]]

\* transforms = build_transforms(self.config.transforms)
Transforms == config.transforms
NumStages == Len(config.transforms)

Bump(m, counter, by) == [m EXCEPT ![counter] = @ + by]

SetFate(f, idxs, what) ==
    [i \in 1..Len(f) |-> IF i \in idxs THEN what ELSE f[i]]

\* the extraction indices of the records of a batch
Indices(batch) == {batch[j].i : j \in 1..Len(batch)}

\* build_transforms raises ValueError on a type it does not know, and so
\* does DeriveTransform(expression=cfg.expression or "") on an expression
\* without '='
BuildFails ==
    \E i \in 1..NumStages :
        \/ Transforms[i].type \notin KnownTypes
        \/ Transforms[i].type = "derive" /\ DeriveInitFails(Transforms[i].source)

\* run() up to the try: metrics.start, build_extractor, build_transforms,
\* build_validator, build_loader, valid_records = []
Build ==
    /\ runs' = runs + 1
    /\ result' = <<>>
    /\ IF BuildFails
       THEN /\ exc' = "setup"
            /\ pc' = "raised"
            /\ UNCHANGED <<seen, valid_records, closeCalls, origin, pulled, fate,
                           applied, batchIdx, loadCalls, current, stageIdx>>
       ELSE /\ exc' = ""
            /\ pc' = "pull"
            /\ seen' = [i \in 1..NumStages |-> {}]
            /\ valid_records' = <<>>
            /\ closeCalls' = 0
            /\ origin' = <<>>
            /\ pulled' = 0
            /\ fate' = <<>>
            /\ applied' = <<>>
            /\ batchIdx' = <<>>
            /\ loadCalls' = <<>>
            /\ current' = <<>>
            /\ stageIdx' = 1
    /\ UNCHANGED <<unit, config, metrics, stdout, exitCode>>

\* _cmd_run: pipeline = Pipeline(config); pipeline.run()
Start ==
    /\ pc = "idle"
    /\ Build

\* a second run() on the same Pipeline object
RunAgain ==
    /\ pc \in {"returned", "raised"}
    /\ runs < MaxRuns
    /\ Build

\* for record in extractor.extract(): the extractor yields a record
Pull ==
    /\ pc = "pull"
    /\ pulled < MaxRecords
    /\ \E r \in RecordPool : current' = <<r>> /\ origin' = r
    /\ metrics' = Bump(metrics, "records_extracted", 1)
    /\ stageIdx' = 1
    /\ pulled' = pulled + 1
    /\ fate' = Append(fate, "inflight")
    /\ applied' = <<>>
    /\ pc' = "chain"
    /\ UNCHANGED <<unit, config, seen, valid_records, exc, closeCalls, result, stdout,
                   exitCode, runs, batchIdx, loadCalls>>

\* the extractor is exhausted: the for loop ends
ExtractorDone ==
    /\ pc = "pull"
    /\ pc' = "final"
    /\ UNCHANGED <<unit, origin, config, metrics, current, stageIdx, seen, valid_records, exc,
                   closeCalls, result, stdout, exitCode, runs, pulled, fate,
                   applied, batchIdx, loadCalls>>

\* the extractor raises while producing the next record
ExtractorRaises ==
    /\ pc = "pull"
    /\ exc' = "extractor"
    /\ pc' = "finally"
    /\ UNCHANGED <<unit, origin, config, metrics, current, stageIdx, seen, valid_records,
                   closeCalls, result, stdout, exitCode, runs, pulled, fate,
                   applied, batchIdx, loadCalls>>

\* mutant: the chain loop without `if current is None: break`, so that the
\* next stage is applied to None (and fails on it)
ApplyTransformNoBreak ==
    /\ pc = "chain"
    /\ stageIdx <= NumStages
    /\ LET cfg == Transforms[stageIdx]
           r == IF current = <<>> THEN Raised
                ELSE StageApply(cfg, seen[stageIdx], current[1])
       IN  /\ applied' = Append(applied, stageIdx)
           /\ IF r.out = "raise"
              THEN /\ exc' = "stage"
                   /\ pc' = "finally"
                   /\ fate' = SetFate(fate, {pulled}, "raised")
                   /\ UNCHANGED <<current, stageIdx, seen>>
              ELSE /\ current' = r.rec
                   /\ seen' = [seen EXCEPT ![stageIdx] = StageSeen(cfg, @, current[1])]
                   /\ stageIdx' = stageIdx + 1
                   /\ UNCHANGED <<exc, pc, fate>>
    /\ UNCHANGED <<unit, origin, config, metrics, valid_records, closeCalls, result,
                   stdout, exitCode, runs, pulled, batchIdx, loadCalls>>

\* mutant: the exception of a stage caught per record, the record dropped
ApplyTransformIsolates ==
    /\ pc = "chain"
    /\ current # <<>>
    /\ stageIdx <= NumStages
    /\ LET cfg == Transforms[stageIdx]
           r == StageApply(cfg, seen[stageIdx], current[1])
       IN  /\ applied' = Append(applied, stageIdx)
           /\ IF r.out = "raise"
              THEN /\ current' = <<>>
                   /\ UNCHANGED <<stageIdx, seen>>
              ELSE /\ current' = r.rec
                   /\ seen' = [seen EXCEPT ![stageIdx] = StageSeen(cfg, @, current[1])]
                   /\ stageIdx' = stageIdx + 1
    /\ UNCHANGED <<unit, origin, config, metrics, valid_records, closeCalls, result,
                   stdout, exitCode, runs, pulled, batchIdx, loadCalls, exc, pc,
                   fate>>

\* current = transform.apply(current) for the next transform of the chain
ApplyTransform ==
    /\ pc = "chain"
    /\ current # <<>>
    /\ stageIdx <= NumStages
    /\ LET cfg == Transforms[stageIdx]
           r == StageApply(cfg, seen[stageIdx], current[1])
       IN  /\ applied' = Append(applied, stageIdx)
           /\ IF r.out = "raise"
              THEN /\ exc' = "stage"
                   /\ pc' = "finally"
                   /\ fate' = SetFate(fate, {pulled}, "raised")
                   /\ UNCHANGED <<current, stageIdx, seen>>
              ELSE /\ current' = r.rec
                   /\ seen' = [seen EXCEPT ![stageIdx] = StageSeen(cfg, @, current[1])]
                   /\ stageIdx' = stageIdx + 1
                   /\ UNCHANGED <<exc, pc, fate>>
    /\ UNCHANGED <<unit, origin, config, metrics, valid_records, closeCalls, result, stdout,
                   exitCode, runs, pulled, batchIdx, loadCalls>>

\* mutant: records_transformed is incremented before the None check
DropRecordCounted ==
    /\ pc = "chain"
    /\ current = <<>>
    /\ origin' = <<>>
    /\ pc' = "pull"
    /\ metrics' = [metrics EXCEPT !.records_transformed = @ + 1]
    /\ fate' = SetFate(fate, {pulled}, "dropped")
    /\ UNCHANGED <<unit, config, current, stageIdx, seen, valid_records, exc,
                   closeCalls, result, stdout, exitCode, runs, pulled, applied,
                   batchIdx, loadCalls>>

\* if current is None: break ... continue
DropRecord ==
    /\ pc = "chain"
    /\ current = <<>>
    /\ origin' = <<>>
    /\ pc' = "pull"
    /\ fate' = SetFate(fate, {pulled}, "dropped")
    /\ UNCHANGED <<unit, config, metrics, current, stageIdx, seen, valid_records, exc,
                   closeCalls, result, stdout, exitCode, runs, pulled, applied,
                   batchIdx, loadCalls>>

\* the chain is through with a record: records_transformed += 1
ChainDone ==
    /\ pc = "chain"
    /\ current # <<>>
    /\ stageIdx > NumStages
    /\ metrics' = Bump(metrics, "records_transformed", 1)
    /\ pc' = "validate"
    /\ UNCHANGED <<unit, origin, config, current, stageIdx, seen, valid_records, exc, closeCalls,
                   result, stdout, exitCode, runs, pulled, fate, applied, batchIdx,
                   loadCalls>>

\* errors = validator.validate_record(current) if a validator is configured
Errors(rec) ==
    IF config.validate.on THEN ValidateRecord(config.validate.fields, rec) ELSE <<>>

\* mutant: the `continue` after logging the errors is missing, so that the
\* rejected record falls through into the batch
RejectNoContinue ==
    /\ pc = "validate"
    /\ Errors(current[1]) # <<>>
    /\ metrics' = [metrics EXCEPT
                     !.records_invalid = @ + 1,
                     !.records_valid = @ + 1,
                     !.errors = Append(@, [record |-> current[1],
                                           errors |-> Errors(current[1])])]
    /\ valid_records' = Append(valid_records, current[1])
    /\ batchIdx' = Append(batchIdx, [i |-> pulled, src |-> origin])
    /\ fate' = SetFate(fate, {pulled}, "invalid")
    /\ current' = <<>>
    /\ origin' = <<>>
    /\ pc' = "batch"
    /\ UNCHANGED <<unit, config, stageIdx, seen, exc, closeCalls, result, stdout,
                   exitCode, runs, pulled, applied, loadCalls>>

\* if errors: records_invalid += 1, errors.append(...), continue
Reject ==
    /\ pc = "validate"
    /\ Errors(current[1]) # <<>>
    /\ metrics' = [metrics EXCEPT
                     !.records_invalid = @ + 1,
                     !.errors = Append(@, [record |-> current[1],
                                           errors |-> Errors(current[1])])]
    /\ fate' = SetFate(fate, {pulled}, "invalid")
    /\ current' = <<>>
    /\ origin' = <<>>
    /\ pc' = "pull"
    /\ UNCHANGED <<unit, config, stageIdx, seen, valid_records, exc, closeCalls, result,
                   stdout, exitCode, runs, pulled, applied, batchIdx, loadCalls>>

\* records_valid += 1; valid_records.append(current)
Accept ==
    /\ pc = "validate"
    /\ Errors(current[1]) = <<>>
    /\ metrics' = Bump(metrics, "records_valid", 1)
    /\ valid_records' = Append(valid_records, current[1])
    /\ batchIdx' = Append(batchIdx, [i |-> pulled, src |-> origin])
    /\ fate' = SetFate(fate, {pulled}, "batched")
    /\ current' = <<>>
    /\ origin' = <<>>
    /\ pc' = "batch"
    /\ UNCHANGED <<unit, config, stageIdx, seen, exc, closeCalls, result, stdout,
                   exitCode, runs, pulled, applied, loadCalls>>

\* mutant: the flush threshold compared with > instead of >=
BatchFullStrict == Len(valid_records) > config.batch_size

\* mutant: the flush threshold compared with == instead of >=
BatchFullExact == Len(valid_records) = config.batch_size

\* len(valid_records) >= self.config.load.batch_size
BatchFull == Len(valid_records) >= config.batch_size

\* loader.load(records) of the concrete loaders returns the number of records
LoadCount(records) == Len(records)

\* what loader.load(records) may return: a Loader returns the count it
\* loaded, which the protocol does not tie to the length of the batch
Returned(records) ==
    IF config.loader = "concrete" THEN {LoadCount(records)} ELSE 0..Len(records)

\* a load call: the batch passed, whether the call returned, and its count
LoadCall(ok, n) == [recs |-> valid_records, idx |-> batchIdx, ok |-> ok, n |-> n]

\* mutant: the batch is not cleared after the load
BatchFlushKeeps ==
    /\ pc = "batch"
    /\ Len(valid_records) >= config.batch_size
    /\ \E n \in 0..Len(valid_records) :
          /\ metrics' = [metrics EXCEPT !.records_loaded = @ + n]
          /\ loadCalls' = Append(loadCalls, [recs |-> valid_records, idx |-> batchIdx,
                                            ok |-> TRUE, n |-> n])
    /\ pc' = "pull"
    /\ UNCHANGED <<unit, origin, config, current, stageIdx, seen, exc, closeCalls, result,
                   stdout, exitCode, runs, pulled, applied, fate, valid_records, batchIdx>>

\* the batch is full: loaded = loader.load(valid_records); clear
BatchFlush ==
    /\ pc = "batch"
    /\ BatchFull
    /\ \E n \in Returned(valid_records) :
          /\ metrics' = Bump(metrics, "records_loaded", n)
          /\ loadCalls' = Append(loadCalls, LoadCall(TRUE, n))
    /\ fate' = SetFate(fate, Indices(batchIdx), "loaded")
    /\ valid_records' = <<>>
    /\ batchIdx' = <<>>
    /\ pc' = "pull"
    /\ UNCHANGED <<unit, origin, config, current, stageIdx, seen, exc, closeCalls, result,
                   stdout, exitCode, runs, pulled, applied>>

\* the batch is full and loader.load raises
BatchFlushRaises ==
    /\ pc = "batch"
    /\ BatchFull
    /\ loadCalls' = Append(loadCalls, LoadCall(FALSE, 0))
    /\ exc' = "loader"
    /\ pc' = "finally"
    /\ UNCHANGED <<unit, origin, config, metrics, current, stageIdx, seen, valid_records,
                   closeCalls, result, stdout, exitCode, runs, pulled, fate,
                   applied, batchIdx>>

\* the batch is not full: next record
BatchSkip ==
    /\ pc = "batch"
    /\ ~BatchFull
    /\ pc' = "pull"
    /\ UNCHANGED <<unit, origin, config, metrics, current, stageIdx, seen, valid_records, exc,
                   closeCalls, result, stdout, exitCode, runs, pulled, fate,
                   applied, batchIdx, loadCalls>>

\* after the loop: if valid_records: loaded = loader.load(valid_records)
FinalFlush ==
    /\ pc = "final"
    /\ valid_records # <<>>
    /\ \E n \in Returned(valid_records) :
          /\ metrics' = Bump(metrics, "records_loaded", n)
          /\ loadCalls' = Append(loadCalls, LoadCall(TRUE, n))
    /\ fate' = SetFate(fate, Indices(batchIdx), "loaded")
    /\ pc' = "finally"
    /\ UNCHANGED <<unit, origin, config, current, stageIdx, seen, valid_records, exc, closeCalls,
                   result, stdout, exitCode, runs, pulled, applied, batchIdx>>

\* the final load raises
FinalFlushRaises ==
    /\ pc = "final"
    /\ valid_records # <<>>
    /\ loadCalls' = Append(loadCalls, LoadCall(FALSE, 0))
    /\ exc' = "loader"
    /\ pc' = "finally"
    /\ UNCHANGED <<unit, origin, config, metrics, current, stageIdx, seen, valid_records,
                   closeCalls, result, stdout, exitCode, runs, pulled, fate,
                   applied, batchIdx>>

\* mutant: the load of the remaining records after the loop is missing
FinalSkipAlways ==
    /\ pc = "final"
    /\ pc' = "finally"
    /\ UNCHANGED <<unit, origin, config, metrics, current, stageIdx, seen,
                   valid_records, exc, closeCalls, result, stdout, exitCode, runs,
                   pulled, fate, applied, batchIdx, loadCalls>>

\* nothing is left to load
FinalSkip ==
    /\ pc = "final"
    /\ valid_records = <<>>
    /\ pc' = "finally"
    /\ UNCHANGED <<unit, origin, config, metrics, current, stageIdx, seen, valid_records, exc,
                   closeCalls, result, stdout, exitCode, runs, pulled, fate,
                   applied, batchIdx, loadCalls>>

\* mutant: loader.close() at the end of the try body instead of in a finally
FinallyCloseOnSuccess ==
    /\ pc = "finally"
    /\ IF exc # ""
       THEN /\ pc' = "raised"
            /\ UNCHANGED <<result, closeCalls>>
       ELSE /\ pc' = "returned"
            /\ closeCalls' = closeCalls + 1
            /\ result' = <<to_dict(metrics)>>
    /\ UNCHANGED <<unit, origin, config, metrics, current, stageIdx, seen,
                   valid_records, exc, stdout, exitCode, runs, pulled, fate,
                   applied, batchIdx, loadCalls>>

\* finally: loader.close(); metrics.stop(); then the exception in flight
\* propagates, or run() returns self.metrics.to_dict()
Finally ==
    /\ pc = "finally"
    /\ closeCalls' = closeCalls + 1
    /\ IF exc # ""
       THEN /\ pc' = "raised"
            /\ UNCHANGED result
       ELSE /\ pc' = "returned"
            /\ result' = <<to_dict(metrics)>>
    /\ UNCHANGED <<unit, origin, config, metrics, current, stageIdx, seen, valid_records, exc,
                   stdout, exitCode, runs, pulled, fate, applied, batchIdx,
                   loadCalls>>

\* _cmd_run: print(json.dumps(metrics)); return 0
CmdRunPrint ==
    /\ pc = "returned"
    /\ stdout' = result
    /\ exitCode' = 0
    /\ pc' = "exit"
    /\ UNCHANGED <<unit, origin, config, metrics, current, stageIdx, seen, valid_records, exc,
                   closeCalls, result, runs, pulled, fate, applied, batchIdx,
                   loadCalls>>

\* _cmd_run: except Exception: print the error to stderr; return 1
CmdRunError ==
    /\ pc = "raised"
    /\ exitCode' = 1
    /\ pc' = "exit"
    /\ UNCHANGED <<unit, origin, config, metrics, current, stageIdx, seen, valid_records, exc,
                   closeCalls, result, stdout, runs, pulled, fate, applied,
                   batchIdx, loadCalls>>

Next ==
    \/ Start
    \/ Pull
    \/ ExtractorDone
    \/ ExtractorRaises
    \/ ApplyTransform
    \/ DropRecord
    \/ ChainDone
    \/ Reject
    \/ Accept
    \/ BatchFlush
    \/ BatchFlushRaises
    \/ BatchSkip
    \/ FinalFlush
    \/ FinalFlushRaises
    \/ FinalSkip
    \/ Finally
    \/ CmdRunPrint
    \/ CmdRunError

\* one Pipeline object run once by the CLI
Spec == Init /\ [][Next]_vars

\* a Pipeline object whose run() a library caller may invoke again
InitRerun ==
    /\ Init
    /\ config.transforms = <<CastV, FilterV, DedupK>>
    /\ config.validate = ValidateK

SpecRerun == InitRerun /\ [][Next \/ RunAgain]_vars

\* one Pipeline object whose filter and derive stages are configured as text
InitText ==
    /\ loader = NewLoader
    /\ extractor = NewExtractor(<<>>)
    /\ PipelineInitOf(TextChains, "concrete")
    /\ dedup = NewDedup(<<>>)
    /\ stage = NoStage
    /\ sandbox = NoSandbox

SpecText == InitText /\ [][Next]_vars

\* one Pipeline object run with a Loader that is none of the repository's:
\* each load call returns any count up to the length of the batch
InitLoader ==
    /\ loader = NewLoader
    /\ extractor = NewExtractor(<<>>)
    /\ PipelineInitOf(<<<<FilterV>>>>, "protocol")
    /\ dedup = NewDedup(<<>>)
    /\ stage = NoStage
    /\ sandbox = NoSandbox

SpecLoader == InitLoader /\ [][Next]_vars

(***************************************************************************)
(* A DeduplicateTransform driven on its own                                *)
(***************************************************************************)
\* the records applied to the stage: every record over a subset of the
\* fields a and b, with the values None, 1 and 2
DedupRecords == UNION {[D -> {NoneV, IntV(1), IntV(2)}] : D \in SUBSET {"a", "b"}}

DedupKeys == {<<"a">>, <<"b">>, <<"a", "b">>}

InitDedup ==
    /\ loader = NewLoader
    /\ extractor = NewExtractor(<<>>)
    /\ PipelineInit
    /\ config = [transforms |-> <<>>, validate |-> NoValidate, batch_size |-> 1, loader |-> "concrete"]
    /\ \E key \in DedupKeys : dedup = NewDedup(key)
    /\ stage = NoStage
    /\ sandbox = NoSandbox

\* DeduplicateTransform.apply(record)
DedupStep ==
    /\ Len(dedup.inputs) < MaxDedupInputs
    /\ \E r \in DedupRecords :
          dedup' = [dedup EXCEPT
                      !.seen = DedupSeen(dedup.key, @, r),
                      !.inputs = Append(@, r),
                      !.outputs = Append(@, DedupApply(dedup.key, dedup.seen, r))]
    /\ UNCHANGED <<pipeline, stage, sandbox, loader, extractor>>

\* DeduplicateTransform.reset(): the history kept is the one since the reset
DedupReset ==
    /\ dedup.inputs # <<>>
    /\ dedup' = NewDedup(dedup.key)
    /\ UNCHANGED <<pipeline, stage, sandbox, loader, extractor>>

SpecDedup == InitDedup /\ [][DedupStep \/ DedupReset]_vars

(***************************************************************************)
(* A FilterTransform or a DeriveTransform driven on its own                *)
(***************************************************************************)
\* the expressions given to the stages, as source text
ExprSources ==
    { <<"v", " ", ">", "=", " ", "1">>, <<"v", "=", "=", "1">>, <<"k", "<", "v">>,
      <<"v">>, <<"True">>, <<"None">>, <<"0">>, <<"y">>,
      <<"v", "+", "1">>, <<"v", "+", "'x'">>,
      <<"len", "(", "v", ")">>, <<"int", "(", "v", ")">>, <<"str", "(", "v", ")">>,
      <<"bool", "(", "v", ")">>, <<"upper", "(", "v", ")">>, <<"open", "(", "v", ")">>,
      <<"k", "(", "v", ")">>,
      <<"v", ".", "upper", "(", ")">>, <<"v", ".", "isdigit", "(", ")">>,
      <<"v", ".", "bit_length", "(", ")">>, <<"v", ".", "__class__">>,
      <<"__builtins__">>,
      <<"(", "y", ":", "=", "1", ")">>, <<"(", "v", ":", "=", "0", ")">>,
      <<"v", " ", ">", "=">>, <<"v", "1">>, <<>> }

\* the expressions given to DeriveTransform: "<target> = <expression>", and
\* strings without '=', without a target, without spaces, with more spaces
DeriveSources ==
    { <<tgt, " ", "=", " ">> \o e : tgt \in {"t", "v"}, e \in ExprSources }
    \cup { <<"t", "=", "v">>, <<" ", "t", " ", " ", "=", " ", "v", " ">>,
           <<"=", "v">>, <<"v", "+", "1">>, <<"v">>, <<>> }

\* FilterTransform(condition) or DeriveTransform(expression), constructed
InitStage ==
    /\ loader = NewLoader
    /\ extractor = NewExtractor(<<>>)
    /\ PipelineInit
    /\ config = [transforms |-> <<>>, validate |-> NoValidate, batch_size |-> 1, loader |-> "concrete"]
    /\ dedup = NewDedup(<<>>)
    /\ sandbox = NoSandbox
    /\ \/ \E c \in ExprSources :
             stage = [NoStage EXCEPT !.kind = "filter", !.phase = "built",
                                     !.source = c, !.expr = c]
       \/ \E e \in DeriveSources :
             stage = IF DeriveInitFails(e)
                     THEN [NoStage EXCEPT !.kind = "derive", !.phase = "failed", !.source = e]
                     ELSE [NoStage EXCEPT !.kind = "derive", !.phase = "built", !.source = e,
                                          !.target = DeriveTarget(e), !.expr = DeriveExpr(e)]

\* FilterTransform.apply(record); the record passed is the namespace of the
\* evaluation
FilterCall ==
    /\ stage.kind = "filter" /\ stage.phase = "built"
    /\ \E rec \in RecordPool :
          stage' = [stage EXCEPT !.input = <<rec>>,
                                 !.result = <<FilterTextApply(stage.expr, rec)>>,
                                 !.after = <<FilterEval(stage.expr, rec).env>>]
    /\ UNCHANGED <<pipeline, dedup, sandbox, loader, extractor>>

\* DeriveTransform.apply(record): the record passed is copied, never written
DeriveCall ==
    /\ stage.kind = "derive" /\ stage.phase = "built"
    /\ \E rec \in RecordPool :
          stage' = [stage EXCEPT !.input = <<rec>>,
                                 !.result = <<DeriveApply(stage.target, stage.expr, rec)>>,
                                 !.after = <<rec>>]
    /\ UNCHANGED <<pipeline, dedup, sandbox, loader, extractor>>

SpecStage == InitStage /\ [][FilterCall \/ DeriveCall]_vars

(***************************************************************************)
(* A RenameTransform or a CastTransform driven on its own                  *)
(***************************************************************************)
\* the sequences without repetition over the elements of a set
Orders(S) ==
    {o \in UNION {[1..n -> S] : n \in 0..Cardinality(S)} :
        \A i, j \in 1..Len(o) : i # j => o[i] # o[j]}

\* RenameTransform(mapping) for the mappings with none, one or two source
\* keys, in either order, each with any target; CastTransform(columns) for
\* the configurations of up to two columns, in either order, each with a
\* type name (one of them unknown to CAST_MAP)
InitColumns ==
    /\ loader = NewLoader
    /\ extractor = NewExtractor(<<>>)
    /\ PipelineInit
    /\ config = [transforms |-> <<>>, validate |-> NoValidate, batch_size |-> 1, loader |-> "concrete"]
    /\ dedup = NewDedup(<<>>)
    /\ sandbox = NoSandbox
    /\ \E kind \in {"rename", "cast"}, o \in Orders({"a", "b"}) :
          \E t \in [1..Len(o) -> IF kind = "rename" THEN {"a", "b", "c"}
                                  ELSE {"int", "str", "uuid"}] :
             stage = [NoStage EXCEPT !.kind = kind, !.phase = "built",
                                     !.source = [i \in 1..Len(o) |-> <<o[i], t[i]>>]]

\* RenameTransform.apply(record) on a record of up to three fields in any
\* order: the comprehension reads the record only
RenameCall ==
    /\ stage.kind = "rename" /\ stage.phase = "built"
    /\ \E o \in Orders({"a", "b", "c"}) :
          LET value == [a |-> IntV(1), b |-> IntV(2), c |-> IntV(0)]
              items == [i \in 1..Len(o) |-> <<o[i], value[o[i]]>>]
          IN stage' = [stage EXCEPT !.input = <<items>>,
                                    !.result = <<RenameApply(stage.source, items, <<>>)>>,
                                    !.after = <<items>>]
    /\ UNCHANGED <<pipeline, dedup, sandbox, loader, extractor>>

\* CastTransform.apply(record) on a record that holds some of the fields a,
\* b, c with None, an int, a numeric or other str, or the float inf: the
\* casts are written into result = dict(record), never into the record
CastCall ==
    /\ stage.kind = "cast" /\ stage.phase = "built"
    /\ \E D \in SUBSET {"a", "b", "c"} :
          \E rec \in [D -> {NoneV, IntV(1), StrV("1"), StrV("x"),
                            [t |-> "float", n |-> 0, s |-> "inf"]}] :
             LET r == CastApply(Dict(stage.source), rec)
             IN stage' = [stage EXCEPT
                            !.input = <<rec>>,
                            !.result = <<IF r.out # "raise" THEN r
                                         ELSE [out |-> "raise", rec |-> <<>>,
                                               error |-> CastError(stage.source, rec)]>>,
                            !.after = <<rec>>]
    /\ UNCHANGED <<pipeline, dedup, sandbox, loader, extractor>>

SpecColumns == InitColumns /\ [][RenameCall \/ CastCall]_vars

(***************************************************************************)
(* A CSVWriterLoader driven on its own                                     *)
(***************************************************************************)
\* csv.DictWriter(f, fieldnames).writerow(record) for a record given as its
\* items: ValueError (<<>>) when the record holds a key that is no fieldname
\* (extrasaction="raise"), else the row written: for each fieldname the text
\* of the value, "" for None and for a key the record does not hold
writerow(fieldnames, items) ==
    IF \E i \in 1..Len(items) : \A j \in 1..Len(fieldnames) : fieldnames[j] # items[i][1]
    THEN <<>>
    ELSE <<[kind |-> "row",
            cells |-> [j \in 1..Len(fieldnames) |->
                         LET val == Get(Dict(items), fieldnames[j])
                         IN IF val = NoneV THEN "" ELSE StrCast(val).s]]>>

\* mutant: the writer is built anew from the first record of every batch
FieldnamesOfBatch(writer, records) == [i \in 1..Len(records[1]) |-> records[1][i][1]]

\* the fieldnames of self._writer after `if self._writer is None:
\* self._writer = csv.DictWriter(self._file, list(records[0].keys()))`
Fieldnames(writer, records) ==
    IF writer = <<>> THEN [i \in 1..Len(records[1]) |-> records[1][i][1]] ELSE writer[1]

\* CSVWriterLoader.load(records), for the batches of up to two records over
\* the fields a and b in either order, without b, with None, or with a
\* further field c.  The file is opened with mode "w" when _file is None,
\* which creates it or truncates it; the rows go to the buffer of the file
\* and reach the disk with the flush that ends the call; a ValueError of
\* writerow ends the call after the rows before it were written.
CsvLoad ==
    /\ Len(loader.calls) < MaxLoaderCalls
    /\ \E n \in 0..2 :
       \E records \in [1..n -> { <<<<"a", IntV(1)>>, <<"b", IntV(2)>>>>,
                                 <<<<"b", StrV("x")>>, <<"a", NoneV>>>>,
                                 <<<<"a", IntV(0)>>>>,
                                 <<<<"a", IntV(1)>>, <<"c", IntV(2)>>>> }] :
          loader' =
             IF records = <<>>
             THEN [loader EXCEPT !.calls = Append(@, [op |-> "load", records |-> records,
                                                      ret |-> <<0>>])]
             ELSE LET opened == IF loader.file THEN loader
                                ELSE [loader EXCEPT !.file = TRUE, !.exists = TRUE,
                                                    !.disk = <<>>, !.buffer = <<>>]
                      fieldnames == Fieldnames(loader.writer, records)
                      header == IF loader.header_written THEN <<>>
                                ELSE <<[kind |-> "header", cells |-> fieldnames]>>
                      bad == {i \in 1..Len(records) : writerow(fieldnames, records[i]) = <<>>}
                      count == IF bad = {} THEN Len(records)
                               ELSE (CHOOSE i \in bad : \A j \in bad : i <= j) - 1
                      written == opened.buffer \o header
                                 \o [i \in 1..count |-> writerow(fieldnames, records[i])[1]]
                  IN [opened EXCEPT
                        !.writer = <<fieldnames>>,
                        !.header_written = TRUE,
                        !.disk = IF bad = {} THEN @ \o written ELSE @,
                        !.buffer = IF bad = {} THEN <<>> ELSE written,
                        !.calls = Append(@, [op |-> "load", records |-> records,
                                             ret |-> IF bad = {} THEN <<count>> ELSE <<>>])]
    /\ UNCHANGED <<pipeline, dedup, stage, sandbox, extractor>>

\* CSVWriterLoader.close(): closing the file flushes its buffer; _file and
\* _writer are set to None, _header_written is left as it is
CsvClose ==
    /\ Len(loader.calls) < MaxLoaderCalls
    /\ loader' = [loader EXCEPT
                    !.disk = IF loader.file THEN @ \o loader.buffer ELSE @,
                    !.buffer = <<>>,
                    !.file = FALSE,
                    !.writer = IF loader.file THEN <<>> ELSE @,
                    !.calls = Append(@, [op |-> "close", records |-> <<>>, ret |-> <<>>])]
    /\ UNCHANGED <<pipeline, dedup, stage, sandbox, extractor>>

InitCsv ==
    /\ Init
    /\ config = [transforms |-> <<>>, validate |-> NoValidate, batch_size |-> 1,
                 loader |-> "concrete"]

SpecCsv == InitCsv /\ [][CsvLoad \/ CsvClose]_vars

(***************************************************************************)
(* APIExtractor called on its own                                          *)
(***************************************************************************)
\* A JSON value of a response body is [t, v]: a list with its items, a
\* string with the URL it spells, null, or a dict with its fields.

\* The records of one page, extract: a list body is the records; a dict body
\* gives the list under the first of results, data, items, records that is
\* a list, and is itself the one record when there is none
PageRecords(data) ==
    LET keys == SelectSeq(<<"results", "data", "items", "records">>,
                    LAMBDA key : /\ data.t = "dict"
                                 /\ key \in DOMAIN data.v
                                 /\ data.v[key].t = "list")
    IN  IF data.t = "list" THEN data.v
        ELSE IF keys # <<>> THEN data.v[keys[1]].v
        ELSE <<data.v>>

\* mutant: the body fields are looked at before the Link header
get_next_url_BodyFirst(pagination, response, current_url) ==
    LET data == response.data
        next_link == SelectSeq(response.link, LAMBDA part : part.rel = "next")
        keys == SelectSeq(<<"next", "next_url", "next_page">>,
                    LAMBDA key : /\ data.t = "dict"
                                 /\ key \in DOMAIN data.v
                                 /\ data.v[key].t = "str")
    IN  IF keys # <<>> THEN data.v[keys[1]].v
        ELSE IF next_link # <<>> THEN <<next_link[1].url>>
        ELSE <<>>

\* APIExtractor._get_next_url, <<>> for None.  response.link is the Link
\* header split into its parts (_parse_link_header returns the first
\* rel="next" part); a string is truthy and null is not; limit defaults to 100
get_next_url(pagination, response, current_url) ==
    LET data == response.data
        next_link == SelectSeq(response.link, LAMBDA part : part.rel = "next")
        keys == SelectSeq(<<"next", "next_url", "next_page">>,
                    LAMBDA key : /\ data.t = "dict"
                                 /\ key \in DOMAIN data.v
                                 /\ data.v[key].t = "str")
        limit == IF pagination[1].limit = <<>> THEN 100
                 ELSE pagination[1].limit[1]
    IN  IF next_link # <<>> THEN <<next_link[1].url>>
        ELSE IF keys # <<>> THEN data.v[keys[1]].v
        ELSE IF /\ pagination # <<>>
                /\ pagination[1].type = "offset"
                /\ data.t = "list"
                /\ Len(data.v) >= limit
             THEN <<[current_url EXCEPT
                        !.offset = (IF @ = -1 THEN 0 ELSE @) + limit,
                        !.limit = limit]>>
        ELSE <<>>

\* One turn of the while loop of extract up to its first yield: _fetch_page
\* on the url, whatever the server answers.  The turn starts only when the
\* records of the page before are all yielded and url is not None.
ApiFetch ==
    LET Url(path) == [path |-> path, offset |-> -1, limit |-> -1]
        JStr(path) == [t |-> "str", v |-> <<Url(path)>>]
        JNull == [t |-> "null", v |-> <<>>]
        JList(items) == [t |-> "list", v |-> items]
        r1 == [id |-> JStr("1")]
        r2 == [id |-> JStr("2")]
        links == {<<>>,
                  <<[rel |-> "prev", url |-> Url("p")]>>,
                  <<[rel |-> "prev", url |-> Url("p")],
                    [rel |-> "next", url |-> Url("l")]>>}
        bodies == {JList(<<>>), JList(<<r1>>), JList(<<r1, r2>>),
                   [t |-> "dict", v |-> [results |-> JList(<<r1>>),
                                         next |-> JStr("n")]],
                   [t |-> "dict", v |-> [results |-> JNull,
                                         data |-> JList(<<r1, r2>>),
                                         next |-> JNull,
                                         next_url |-> JStr("n")]],
                   [t |-> "dict", v |-> [records |-> JList(<<>>),
                                         next_url |-> JStr("m"),
                                         next_page |-> JStr("n")]],
                   [t |-> "dict", v |-> [id |-> JStr("1"),
                                         next_page |-> JStr("n")]],
                   [t |-> "dict", v |-> [id |-> JStr("2")]]}
    IN  /\ extractor.next # <<>>
        /\ extractor.pending = <<>>
        /\ Len(extractor.fetched) < MaxPages
        /\ \E link \in links, data \in bodies :
             LET response == [link |-> link, data |-> data]
             IN  extractor' = [extractor EXCEPT
                    !.next = get_next_url(extractor.pagination, response,
                                          extractor.next[1]),
                    !.pending = PageRecords(data),
                    !.fetched = Append(@, [url |-> extractor.next[1],
                                           response |-> response])]
        /\ UNCHANGED <<pipeline, dedup, stage, sandbox, loader>>

\* The consumer takes the next record of the page (yield from)
ApiYield ==
    /\ extractor.pending # <<>>
    /\ extractor' = [extractor EXCEPT
                        !.pending = Tail(@),
                        !.yielded = Append(@, Head(extractor.pending))]
    /\ UNCHANGED <<pipeline, dedup, stage, sandbox, loader>>

\* APIExtractor(url, pagination=...): no pagination, offset pagination with
\* a limit of 1 or 2 or without a limit, or a pagination of another type
InitApi ==
    /\ loader = NewLoader
    /\ PipelineInit
    /\ config = [transforms |-> <<>>, validate |-> NoValidate, batch_size |-> 1,
                 loader |-> "concrete"]
    /\ dedup = NewDedup(<<>>)
    /\ stage = NoStage
    /\ sandbox = NoSandbox
    /\ \E pagination \in {<<>>,
                          <<[type |-> "offset", limit |-> <<1>>]>>,
                          <<[type |-> "offset", limit |-> <<2>>]>>,
                          <<[type |-> "offset", limit |-> <<>>]>>,
                          <<[type |-> "page", limit |-> <<1>>]>>} :
          extractor = NewExtractor(pagination)

\* The consumer of the generator keeps iterating (for record in extract())
SpecApi == InitApi /\ [][ApiFetch \/ ApiYield]_vars /\ WF_vars(ApiYield)

(***************************************************************************)
(* safe_eval called on its own                                             *)
(***************************************************************************)
\* The trees handed to the visitor.  Operands (atoms): literals, names bound
\* in the variables, a name bound nowhere, a dunder attribute of a variable.
\* Over them: `a and b [and c]`, `a or b [or c]`; `a < b`, `a == b < c`, ...;
\* `b if a else c`; `f(a)` for builtins, blocked names, names bound in the
\* variables and names bound nowhere; `True(a)` and `str(a)(b)`, whose callee
\* is no name; `r.m()` and `r.m(a)`; and one level deeper
\* `a and (c if b else d)`, `len(b) if a else (c or d)`.
SandboxTrees ==
    LET dunder == Node("Attribute", "__class__", <<Name("v")>>, <<>>)
        atoms == { Constant(IntV(0)), Constant(IntV(1)), Constant(IntV(2)),
                   Name("v"), Name("s"), Name("missing"), dunder }
        few == {Constant(IntV(0)), Constant(IntV(1)), Name("s"), dunder}
        seqs(lo, hi) == UNION {[1..n -> atoms] : n \in lo..hi}
        callees ==
            {Name(f) : f \in {"len", "str", "int", "bool", "abs", "open", "eval",
                              "v", "s", "missing", "upper"}}
            \cup {Constant(BoolV(TRUE))}
            \cup {Node("Call", "", <<Name("str"), a>>, <<>>) : a \in atoms}
        methods == {"upper", "lower", "startswith", "isdigit", "bit_length", "__len__"}
    IN atoms
       \cup {Node("BoolOp", op, vs, <<>>) : op \in {"and", "or"}, vs \in seqs(2, MaxOperands)}
       \cup UNION {{Node("Compare", "", <<l>> \o cs, ops) :
                        l \in atoms, ops \in [1..n -> {"<", "=="}], cs \in [1..n -> atoms]} :
                   n \in 1..(MaxOperands - 1)}
       \cup {Node("IfExp", "", <<a, b, c>>, <<>>) : a \in atoms, b \in atoms, c \in atoms}
       \cup {Node("Call", "", <<f, a>>, <<>>) : f \in callees, a \in atoms}
       \cup {Node("Call", "", <<Node("Attribute", m, <<r>>, <<>>)>> \o args, <<>>) :
                r \in atoms, m \in methods, args \in {<<>>} \cup {<<a>> : a \in atoms}}
       \cup {Node("BoolOp", op, <<a, Node("IfExp", "", <<b, c, d>>, <<>>)>>, <<>>) :
                op \in {"and", "or"}, a \in few, b \in few, c \in few, d \in few}
       \cup {Node("IfExp", "", <<a, Node("Call", "", <<Name("len"), b>>, <<>>),
                               Node("BoolOp", "or", <<c, d>>, <<>>)>>, <<>>) :
                a \in few, b \in few, c \in few, d \in few}

\* the variables handed to safe_eval
SandboxVariables ==
    { [v |-> IntV(1), s |-> StrV("ab")],
      [v |-> IntV(0), s |-> StrV("")],
      [v |-> StrV("x"), s |-> StrV("a")],
      [v |-> IntV(2), s |-> NoneV] }

InitSandbox ==
    /\ loader = NewLoader
    /\ extractor = NewExtractor(<<>>)
    /\ PipelineInit
    /\ config = [transforms |-> <<>>, validate |-> NoValidate, batch_size |-> 1, loader |-> "concrete"]
    /\ dedup = NewDedup(<<>>)
    /\ stage = NoStage
    /\ \E tree \in SandboxTrees, variables \in SandboxVariables :
          sandbox = [tree |-> <<tree>>, variables |-> <<variables>>, result |-> <<>>]

\* safe_eval(expression, variables) for the expression ast.parse turns into
\* the tree: _SafeEval(variables).visit(tree.body)
SafeEvalCall ==
    /\ sandbox.tree # <<>>
    /\ sandbox.result = <<>>
    /\ sandbox' = [sandbox EXCEPT !.result = <<visit(sandbox.tree[1], sandbox.variables[1])>>]
    /\ UNCHANGED <<pipeline, dedup, stage, loader, extractor>>

SpecSandbox == InitSandbox /\ [][SafeEvalCall]_vars

TypeOK ==
    /\ pc \in {"idle", "pull", "chain", "validate", "batch", "final", "finally",
               "returned", "raised", "exit"}
    /\ Len(current) <= 1
    /\ closeCalls \in 0..1

(***************************************************************************)
(* Properties of Pipeline.run                                              *)
(***************************************************************************)
Completed == pc = "returned" \/ (pc = "exit" /\ exitCode = 0)
Failed == pc = "raised" \/ (pc = "exit" /\ exitCode = 1)
InLoop == pc \in {"pull", "chain", "validate", "batch"}

LoadSizes == [c \in 1..Len(loadCalls) |-> Len(loadCalls[c].recs)]

\* the records of this run with the given fates
WithFate(fs) == {i \in 1..Len(fate) : fate[i] \in fs}
NumValid == Cardinality(WithFate({"batched", "loaded"}))

\* B repeated floor(N/B) times, then N mod B when that is not zero
ExpectedSizes(N, B) ==
    [c \in 1..((N \div B) + (IF N % B # 0 THEN 1 ELSE 0)) |->
        IF c <= N \div B THEN B ELSE N % B]

\* C1: with batch size B >= 1 load is never called with an empty batch, the
\* batch is flushed exactly when it holds B records (every load call made
\* inside the loop has size B and fewer than B records are pending at each
\* pull), and a completed run of N valid records made load calls of sizes
\* B, ..., B (floor(N/B) times) followed by N mod B when that is not zero.
C1_BatchSizes ==
    config.batch_size >= 1 =>
        /\ \A c \in 1..Len(loadCalls) : LoadSizes[c] >= 1
        /\ InLoop => \A c \in 1..Len(loadCalls) : LoadSizes[c] = config.batch_size
        /\ pc = "pull" => Len(valid_records) < config.batch_size
        /\ Completed => LoadSizes = ExpectedSizes(NumValid, config.batch_size)

C1_Witness ==
    /\ pc = "returned"
    /\ config.batch_size = 2
    /\ LoadSizes = <<2, 1>>

\* C2: once the run is inside the try, loader.close() is called exactly once
\* on every exit path: never before the finally, and exactly once when run()
\* has returned or raised (a setup error raises before the loader exists).
C2_CloseOnce ==
    /\ closeCalls <= 1
    /\ (InLoop \/ pc \in {"final", "finally"}) => closeCalls = 0
    /\ ((Completed \/ Failed) /\ exc # "setup") => closeCalls = 1

C2_Witness ==
    /\ pc = "raised"
    /\ exc = "loader"
    /\ pulled >= 2
    /\ closeCalls = 1

C3_State ==
    /\ \A i \in WithFate({"invalid"}) :
          /\ i \notin Indices(batchIdx)
          /\ \A c \in 1..Len(loadCalls) : i \notin Indices(loadCalls[c].idx)
    /\ \A c \in 1..Len(loadCalls) : \A j \in 1..Len(loadCalls[c].recs) :
          Errors(loadCalls[c].recs[j]) = <<>>
    /\ \A j \in 1..Len(valid_records) : Errors(valid_records[j]) = <<>>
    /\ Len(metrics.errors) = metrics.records_invalid
    /\ metrics.records_invalid = Cardinality(WithFate({"invalid"}))
    /\ \A e \in 1..Len(metrics.errors) :
          /\ metrics.errors[e].errors # <<>>
          /\ metrics.errors[e].errors = Errors(metrics.errors[e].record)
    /\ Completed =>
          /\ result[1].error_count = result[1].records_invalid
          /\ result[1].records_transformed =
                result[1].records_valid + result[1].records_invalid

C3_Step ==
    (pc = "validate" /\ config.validate.on
       /\ ValidateRecord(config.validate.fields, current[1]) # <<>>)
    => /\ pc' = "pull"
       /\ exc' = ""
       /\ metrics' = [metrics EXCEPT
                        !.records_invalid = @ + 1,
                        !.errors = Append(@, [record |-> current[1],
                                              errors |-> Errors(current[1])])]
       /\ UNCHANGED <<valid_records, loadCalls>>

\* C3: a record for which the configured validator returns errors adds one
\* to records_invalid and one {record, errors} entry to the error log, is
\* never in the batch nor in a load call, and the run goes on with the next
\* pull; error_count = records_invalid and records_transformed =
\* records_valid + records_invalid in the result of a completed run, and
\* every record passed to load has no validation error.
C3_RejectIsolated == []C3_State /\ [][C3_Step]_vars

C3_Witness ==
    /\ pc = "returned"
    /\ fate = <<"loaded", "invalid", "loaded">>
    /\ result[1].records_invalid = 1
    /\ result[1].records_loaded = 2

C4_State ==
    /\ \A i \in WithFate({"dropped"}) :
          /\ i \notin Indices(batchIdx)
          /\ \A c \in 1..Len(loadCalls) : i \notin Indices(loadCalls[c].idx)
    /\ metrics.records_extracted = pulled
    /\ metrics.records_transformed =
          Cardinality(WithFate({"invalid", "batched", "loaded"}))
            + (IF pc = "validate" THEN 1 ELSE 0)
    /\ metrics.records_valid = Cardinality(WithFate({"batched", "loaded"}))

C4_Step ==
    /\ (pc = "chain" /\ current = <<>>)
       => /\ pc' = "pull"
          /\ UNCHANGED <<seen, applied, metrics, valid_records, batchIdx, loadCalls,
                         exc>>
    /\ (pc = "chain" /\ current' = <<>>) => metrics' = metrics

\* C4: once a stage has returned None for a record no later stage is applied
\* to it (no stage's seen-set changes), the validator is not run, the record
\* never enters the batch nor a load call, and no counter other than
\* records_extracted counts it.
C4_NoneShortCircuits == []C4_State /\ [][C4_Step]_vars

C4_Witness ==
    /\ config.transforms = <<FilterV, DedupK>>
    /\ pc = "pull"
    /\ fate = <<"dropped">>
    /\ applied = <<1>>
    /\ seen[2] = {}
    /\ metrics.records_extracted = 1
    /\ metrics.records_transformed = 0

\* the chain applied to a record in the configured order (a deduplicate
\* stage passes a record on unchanged when it passes it on)
RECURSIVE ChainOutcome(_, _)
ChainOutcome(chain, rec) ==
    IF chain = <<>> THEN Kept(rec)
    ELSE LET r == StageApply(Head(chain), {}, rec)
         IN  IF r.out = "record" THEN ChainOutcome(Tail(chain), r.rec[1]) ELSE r

\* C5: the stages are applied to a record in the configured order, the
\* records passed to load are, in extraction order, the images of extracted
\* records under the configured chain, and when a record is passed to load
\* every record extracted before it was dropped, rejected or passed to load
\* in the same or an earlier call.
C5_Order ==
    /\ applied = [i \in 1..Len(applied) |-> i]
    /\ exc = "stage" => ChainOutcome(config.transforms, origin).out = "raise"
    /\ \A c \in 1..Len(loadCalls) : \A j \in 1..Len(loadCalls[c].recs) :
          /\ Kept(loadCalls[c].recs[j]) =
                ChainOutcome(config.transforms, loadCalls[c].idx[j].src)
          /\ \A c2 \in 1..Len(loadCalls) : \A j2 \in 1..Len(loadCalls[c2].recs) :
                (c < c2 \/ (c = c2 /\ j < j2))
                => loadCalls[c].idx[j].i < loadCalls[c2].idx[j2].i
          /\ \A i \in 1..loadCalls[c].idx[j].i :
                \/ fate[i] \in {"dropped", "invalid"}
                \/ \E c2 \in 1..c : i \in Indices(loadCalls[c2].idx)

C5_Witness ==
    /\ config.transforms = <<CastV, FilterV>>
    /\ Len(loadCalls) = 2
    /\ fate = <<"loaded", "dropped", "loaded">>
    /\ loadCalls[2].idx[1].src = [k |-> IntV(2), v |-> StrV("1")]
    /\ loadCalls[2].recs[1] = [k |-> IntV(2), v |-> IntV(1)]

\* a stage raises on the current record
StageRaises ==
    /\ pc = "chain"
    /\ current # <<>>
    /\ stageIdx <= NumStages
    /\ StageApply(Transforms[stageIdx], seen[stageIdx], current[1]).out = "raise"

C6_State ==
    exc = "stage" =>
        /\ pc \in {"finally", "raised", "exit"}
        /\ fate[pulled] = "raised"
        /\ result = <<>>
        /\ \A i \in Indices(batchIdx) : fate[i] = "batched"
        /\ pc # "finally" => closeCalls = 1
        /\ pc = "exit" => exitCode = 1

C6_Step ==
    /\ StageRaises => (exc' = "stage" /\ pc' = "finally")
    /\ exc = "stage" => UNCHANGED <<pulled, loadCalls, metrics, valid_records>>

\* C6: an exception of a transform stage is not caught by run(): the run
\* leaves the loop at once, pulls no further record, makes no further load
\* call (the pending batch stays unflushed), closes the loader and raises to
\* its caller without returning a result.
C6_StageErrorAborts == []C6_State /\ [][C6_Step]_vars

C6_Witness ==
    /\ pc = "raised"
    /\ exc = "stage"
    /\ Len(valid_records) = 1
    /\ fate = <<"batched", "raised">>
    /\ loadCalls = <<>>
    /\ closeCalls = 1

\* the state of the run state machine Idle -> Running -> {Completed, Failed}
RunState ==
    IF pc = "idle" THEN "Idle"
    ELSE IF Completed THEN "Completed"
    ELSE IF Failed THEN "Failed"
    ELSE "Running"

\* C7 as claimed: the run fails only on an exception of the extractor or of
\* the loader; an error of a transform stage does not fail the run.
C7_StageErrorIsolated ==
    (Failed /\ exc # "setup") => exc \in {"extractor", "loader"}

C7_State ==
    /\ Failed => exc \in {"setup", "extractor", "loader", "stage"}
    /\ exc = "stage" => RunState \in {"Running", "Failed"}
    /\ Completed =>
          /\ exc = ""
          /\ WithFate({"inflight", "raised", "batched"}) = {}
          /\ valid_records # <<>> =>
                loadCalls[Len(loadCalls)] =
                    [recs |-> valid_records, idx |-> batchIdx, ok |-> TRUE,
                     n |-> Len(valid_records)]

C7_Step ==
    /\ RunState = "Idle" =>
          \/ RunState' = "Running"
          \/ RunState' = "Failed" /\ exc' = "setup"
    /\ RunState = "Running" => RunState' \in {"Running", "Completed", "Failed"}
    /\ RunState = "Completed" => RunState' = "Completed"
    /\ RunState = "Failed" => RunState' = "Failed"
    /\ pc = "validate" => RunState' = "Running" /\ exc' = ""
    /\ StageRaises => exc' = "stage"
    /\ (RunState = "Running" /\ RunState' = "Completed") =>
          (pc = "finally" /\ exc = "")
    /\ (RunState = "Running" /\ RunState' = "Failed") =>
          (pc = "finally" /\ exc \in {"extractor", "loader", "stage"})

\* C7 (amended): the run state machine is Idle -> Running -> {Completed,
\* Failed}; the run leaves Running for Failed on an exception of the
\* extractor, of the loader or of a transform stage (a stage error is not
\* isolated to its record, it fails the run; only validation errors are
\* isolated), and it reaches Completed only without an exception, once the
\* extraction is exhausted and the final batch has been flushed.
C7_StateMachine == []C7_State /\ [][C7_Step]_vars

C7_Witness ==
    /\ RunState = "Failed"
    /\ exc = "stage"
    /\ fate = <<"loaded", "raised">>
    /\ closeCalls = 1

\* C8 as claimed: when a run that has loaded records aborts on an exception of
\* the extractor, of a stage or of the loader, run() still hands the result
\* with its counters to its caller, and the CLI prints it.
C8_ResultReported ==
    (exc \in {"extractor", "stage", "loader"} /\ metrics.records_loaded >= 1) =>
        /\ pc = "raised" => result # <<>>
        /\ pc = "exit" => stdout # <<>>

\* C9 as claimed: the result a run() returns counts the records of that run
\* only, also when run() is invoked again on the same Pipeline.
C9_FreshPerRun ==
    pc = "returned" =>
        /\ result[1].records_extracted = pulled
        /\ result[1].records_valid = Cardinality(WithFate({"batched", "loaded"}))
        /\ result[1].error_count = Cardinality(WithFate({"invalid"}))

(***************************************************************************)
(* Properties of DeduplicateTransform                                      *)
(***************************************************************************)
\* the key tuple of a record: a missing key field counts as None
KeyTuple(key, rec) ==
    [n \in 1..Len(key) |-> IF key[n] \in DOMAIN rec THEN rec[key[n]] ELSE NoneV]

C10_State ==
    /\ Len(dedup.outputs) = Len(dedup.inputs)
    /\ \A i \in 1..Len(dedup.inputs) :
          dedup.outputs[i] =
              IF \E j \in 1..(i - 1) :
                    KeyTuple(dedup.key, dedup.inputs[j]) = KeyTuple(dedup.key, dedup.inputs[i])
              THEN Dropped
              ELSE Kept(dedup.inputs[i])
    /\ dedup.seen =
          {KeyTuple(dedup.key, dedup.inputs[i]) : i \in 1..Len(dedup.inputs)}

C10_Step == dedup'.inputs # <<>> => dedup.seen \subseteq dedup'.seen

\* C10: applied to a sequence of records without reset, the stage returns the
\* record unchanged for the first record of each key tuple and None for every
\* later record with that key tuple, a key field missing from a record counts
\* as None in the tuple, and the seen-set only grows.
C10_KeepsFirstPerKey == []C10_State /\ [][C10_Step]_vars

C10_Witness ==
    /\ dedup.key = <<"a", "b">>
    /\ Len(dedup.inputs) = 3
    /\ dedup.inputs[1] = [b |-> IntV(1)]
    /\ dedup.inputs[2] = [a |-> NoneV, b |-> IntV(1)]
    /\ dedup.outputs[1] = Kept(dedup.inputs[1])
    /\ dedup.outputs[2] = Dropped
    /\ dedup.outputs[3] = Kept(dedup.inputs[3])

(***************************************************************************)
(* Properties of the filter and derive stages                              *)
(***************************************************************************)
StageCalled(kind) == stage.kind = kind /\ stage.result # <<>>

\* C11: DeriveTransform.apply returns a new record that holds every field
\* of the input record with its original value plus exactly the target
\* field, set to the value of the expression evaluated against the input
\* record (an existing target is overwritten); no other field is added,
\* removed or changed, and the input record is left as it was.
C11_DeriveFrame ==
    (StageCalled("derive") /\ stage.result[1].out = "record") =>
        LET in == stage.input[1]
            out == stage.result[1].rec[1]
            tgt == Text(stage.target)
        IN /\ DOMAIN out = DOMAIN in \cup {tgt}
           /\ \A f \in DOMAIN in \ {tgt} : out[f] = in[f]
           /\ out[tgt] = DeriveEval(stage.expr, in).val
           /\ stage.after[1] = in

\* C13: FilterTransform.apply evaluates the condition with the fields of
\* the record as bindings and returns the input record when the value is
\* truthy and None when it is falsy; no field of the input record is added,
\* removed or modified by the evaluation; an evaluation error is raised to
\* the caller and never treated as a falsy value.
C13_FilterKeepsOrDrops ==
    StageCalled("filter") =>
        LET in == stage.input[1]
            r == FilterEval(stage.expr, in)
        IN /\ r.out = "raise" => stage.result[1] = Raised
           /\ (r.out = "value" /\ Truthy(r.val)) => stage.result[1] = Kept(in)
           /\ (r.out = "value" /\ ~Truthy(r.val)) => stage.result[1] = Dropped
           /\ stage.after[1] = in

\* C15: the filter and derive stages evaluate through the restricted
\* evaluator: for every expression and record the stage has the outcome
\* safe_eval has on the same expression with the fields of the record as
\* variables, a rejection by safe_eval included.
C15_StagesUseSandbox ==
    (stage.kind \in {"filter", "derive"} /\ stage.result # <<>>) =>
        LET in == stage.input[1]
            r == safe_eval(stage.expr, in)
        IN IF r.out = "raise" THEN stage.result[1] = Raised
           ELSE IF stage.kind = "derive"
           THEN stage.result[1] = Kept(SetField(in, Text(stage.target), r.val))
           ELSE stage.result[1] = (IF Truthy(r.val) THEN Kept(in) ELSE Dropped)

(***************************************************************************)
(* Properties of the stages configured as text in a pipeline               *)
(***************************************************************************)
HasEq(text) == \E i \in 1..Len(text) : text[i] = "="

\* the text without its leading and trailing spaces
Trimmed(text) ==
    LET ends == CHOOSE ab \in (1..(Len(text) + 1)) \X (0..Len(text)) :
                    /\ \A i \in 1..Len(text) :
                          (i < ab[1] \/ i > ab[2]) => text[i] = " "
                    /\ \/ ab[1] = Len(text) + 1 /\ ab[2] = Len(text)
                       \/ ab[1] <= ab[2] /\ text[ab[1]] # " " /\ text[ab[2]] # " "
    IN SubSeq(text, ends[1], ends[2])

\* the text before and after the leftmost '='
LeftmostEq(text) ==
    CHOOSE i \in 1..Len(text) :
        text[i] = "=" /\ \A j \in 1..Len(text) : text[j] = "=" => i <= j
BeforeEq(text) == Trimmed(SubSeq(text, 1, LeftmostEq(text) - 1))
AfterEq(text) == Trimmed(SubSeq(text, LeftmostEq(text) + 1, Len(text)))

\* the derive stages of the configuration whose expression has no '='
DeriveWithoutEq ==
    {i \in 1..Len(config.transforms) :
        config.transforms[i].type = "derive" /\ ~HasEq(config.transforms[i].source)}

\* run() was called and raised before its try block
SetupFailed ==
    /\ Failed
    /\ exc = "setup"
    /\ pulled = 0
    /\ metrics.records_extracted = 0
    /\ loadCalls = <<>>

C12_State == (runs >= 1 /\ DeriveWithoutEq # {}) => SetupFailed

C12_Step ==
    (/\ pc = "chain" /\ current # <<>> /\ stageIdx <= Len(config.transforms)
     /\ config.transforms[stageIdx].type = "derive"
     /\ stageIdx' = stageIdx + 1)
    => LET text == config.transforms[stageIdx].source
       IN /\ HasEq(text)
          /\ current' # <<>>
          /\ Text(BeforeEq(text)) \in DOMAIN current'[1]
          /\ current'[1][Text(BeforeEq(text))] = DeriveEval(AfterEq(text), current[1]).val

\* C12: a derive expression is split at its first '=' into the trimmed
\* target (what the stage assigns) and the trimmed expression (what it
\* evaluates); a derive stage whose expression is missing or has no '='
\* makes the setup of the run fail with ValueError before any record is
\* read and before any load call.
C12_DeriveSplit == []C12_State /\ [][C12_Step]_vars

\* a run failed at setup on a derive stage without '=' that follows a cast
C12_Witness ==
    /\ pc = "exit" /\ exitCode = 1 /\ exc = "setup"
    /\ 2 \in DeriveWithoutEq
    /\ config.transforms[2].source # <<>>

\* the filter and derive stages of the configuration whose text is not an
\* expression
Malformed ==
    {i \in 1..Len(config.transforms) :
        LET cfg == config.transforms[i]
        IN \/ cfg.type = "filter" /\ cfg.field = "" /\ cfg.source # <<>>
              /\ Parse(cfg.source) = <<>>
           \/ cfg.type = "derive" /\ HasEq(cfg.source)
              /\ Parse(AfterEq(cfg.source)) = <<>>}

\* C14: a filter condition or derive expression with malformed syntax is
\* rejected when the stage is constructed, so the setup of the run aborts
\* before any record is pulled (records_extracted stays 0, no load call);
\* it is never discovered only when the first record reaches the stage.
C14_MalformedRejectedAtSetup == (runs >= 1 /\ Malformed # {}) => SetupFailed

(***************************************************************************)
(* Properties of safe_eval                                                 *)
(***************************************************************************)
Evaluated == sandbox.result # <<>>
Tree == sandbox.tree[1]
Outcome == sandbox.result[1]

\* the evaluation of a sub-expression on its own, with the same variables
Alone(node) == visit(node, sandbox.variables[1])

\* the events of the given kind in a trace
Events(trace, kind) == {i \in 1..Len(trace) : trace[i].ev = kind}

\* the traces of the first n of the evaluations rs, one after the other
RECURSIVE Traces(_, _)
Traces(rs, n) == IF n = 0 THEN <<>> ELSE Traces(rs, n - 1) \o rs[n].trace

\* the tree has an attribute access or a method call on a dunder name
RECURSIVE ContainsDunder(_)
ContainsDunder(node) ==
    \/ node.kind = "Attribute" /\ IsDunder(node.id)
    \/ \E i \in 1..Len(node.kids) : ContainsDunder(node.kids[i])

\* C16: an expression that contains, anywhere in its tree, an attribute
\* access or a method call on a dunder name always ends in a rejection and
\* never returns a value, wherever the node stands (the unselected branch
\* of a ternary and an operand after a short circuit included).
C16_DunderAlwaysRejected ==
    (Evaluated /\ ContainsDunder(Tree)) => Outcome.out = "raise"

\* the callable entries of the builtin table
CallableBuiltins == {"len", "str", "int", "float", "bool", "abs", "min", "max", "round"}

IsFunctionCall(node) == node.kind = "Call" /\ node.kids[1].kind # "Attribute"

\* C17: a free function call f(...) is executed only when f names a
\* callable entry of the builtin table; a call of any other name (a name
\* bound in the variables included) or of a callee that is no name is
\* rejected without evaluating an argument and without invoking anything;
\* a call of a callable entry evaluates its arguments and invokes it.
C17_OnlyBuiltinsCalled ==
    Evaluated =>
        /\ \A i \in Events(Outcome.trace, "call") : Outcome.trace[i].id \in CallableBuiltins
        /\ IsFunctionCall(Tree) =>
              LET f == Tree.kids[1]
                  arg == Alone(Tree.kids[2])
              IN IF f.kind = "Name" /\ f.id \in CallableBuiltins
                 THEN IF arg.out = "raise" THEN Outcome = arg
                      ELSE Outcome.trace = Append(arg.trace, Ev("call", f.id))
                 ELSE Outcome.out = "raise" /\ Outcome.trace = <<>>

\* a call of a name bound in the variables, with a variable as argument,
\* was rejected
C17_Witness ==
    /\ Evaluated
    /\ Tree = Node("Call", "", <<Name("v"), Name("s")>>, <<>>)
    /\ Outcome.out = "raise"

\* the string methods that may be called
CallableMethods ==
    {"lower", "upper", "strip", "startswith", "endswith", "lstrip", "rstrip",
     "title", "replace", "split"}

IsMethodCall(node) == node.kind = "Call" /\ node.kids[1].kind = "Attribute"

\* C18: a method call recv.m(args) is executed only when recv evaluates to
\* a str and m is one of the ten whitelisted names; otherwise the call is
\* rejected, the method is not invoked and the arguments are not evaluated;
\* a whitelisted method of a str receiver is invoked once its arguments
\* are evaluated.
C18_OnlyStrMethodsCalled ==
    (Evaluated /\ IsMethodCall(Tree)) =>
        LET m == Tree.kids[1].id
            recv == Alone(Tree.kids[1].kids[1])
            args == Tail(Tree.kids)
        IN IF recv.out = "value" /\ recv.val.t = "str" /\ m \in CallableMethods
           THEN IF args # <<>> /\ Alone(args[1]).out = "raise"
                THEN /\ Outcome.out = "raise"
                     /\ Outcome.trace = recv.trace \o Alone(args[1]).trace
                ELSE /\ Events(Outcome.trace, "method") = {Len(Outcome.trace)}
                     /\ Outcome.trace[Len(Outcome.trace)].id = m
           ELSE /\ Outcome.out = "raise"
                /\ Events(Outcome.trace, "method") = {}
                /\ Outcome.trace \in {<<>>, recv.trace}

\* a method a str has but the whitelist lacks was rejected with its
\* argument not evaluated
C18_Witness ==
    /\ Evaluated
    /\ Tree = Node("Call", "", <<Node("Attribute", "isdigit", <<Name("s")>>, <<>>), Name("v")>>, <<>>)
    /\ sandbox.variables[1].s.t = "str"
    /\ Outcome.out = "raise"
    /\ Outcome.trace = <<Ev("name", "s")>>

\* the operand that decides a BoolOp: the first that raises, the first
\* falsy one of an `and`, the first truthy one of an `or`, else the last
Deciding(node) ==
    LET stops(i) ==
            \/ i = Len(node.kids)
            \/ Alone(node.kids[i]).out = "raise"
            \/ Truthy(Alone(node.kids[i]).val) = (node.id = "or")
    IN CHOOSE i \in 1..Len(node.kids) : stops(i) /\ \A j \in 1..(i - 1) : ~stops(j)

\* C19: `and` returns the value of its first falsy operand, or of the last
\* operand when none is falsy; `or` returns the value of its first truthy
\* operand, or of the last; no operand after the deciding one is evaluated,
\* so an operand that would raise causes no error when it stands after it.
C19_ShortCircuit ==
    (Evaluated /\ Tree.kind = "BoolOp") =>
        LET d == Deciding(Tree)
            rs == [i \in 1..Len(Tree.kids) |-> Alone(Tree.kids[i])]
        IN /\ Outcome.out = rs[d].out
           /\ Outcome.val = rs[d].val
           /\ Outcome.trace = Traces(rs, d)

\* `0 and missing` returned 0 without looking the unbound name up
C19_Witness ==
    /\ Evaluated
    /\ Tree = Node("BoolOp", "and", <<Constant(IntV(0)), Name("missing")>>, <<>>)
    /\ Outcome = Value(IntV(0), <<>>)

\* the pair at which a comparison chain stops: the first whose right
\* comparand raises, that cannot be compared or that compares false; 0
\* when every pair compares true
StopPair(node, rs) ==
    LET bad(i) ==
            \/ rs[i + 1].out = "raise"
            \/ CmpOp(node.ops[i], rs[i].val, rs[i + 1].val) = <<>>
            \/ ~CmpOp(node.ops[i], rs[i].val, rs[i + 1].val)[1]
    IN IF \A i \in 1..Len(node.ops) : ~bad(i) THEN 0
       ELSE CHOOSE i \in 1..Len(node.ops) : bad(i) /\ \A j \in 1..(i - 1) : ~bad(j)

\* C20: a chained comparison a op1 b op2 c ... is evaluated pairwise from
\* the left; every comparand is evaluated at most once and its value is
\* used in both pairs it stands in; the result is true iff every pair
\* compares true; the evaluation stops at the first pair that compares
\* false and evaluates no later comparand.
C20_ChainedComparison ==
    (Evaluated /\ Tree.kind = "Compare") =>
        LET rs == [i \in 1..Len(Tree.kids) |-> Alone(Tree.kids[i])]
            p == StopPair(Tree, rs)
        IN IF rs[1].out = "raise" THEN Outcome = rs[1]
           ELSE IF p = 0
           THEN Outcome = Value(BoolV(TRUE), Traces(rs, Len(Tree.kids)))
           ELSE /\ Outcome.trace = Traces(rs, p + 1)
                /\ IF \/ rs[p + 1].out = "raise"
                      \/ CmpOp(Tree.ops[p], rs[p].val, rs[p + 1].val) = <<>>
                   THEN Outcome.out = "raise"
                   ELSE Outcome = Value(BoolV(FALSE), Traces(rs, p + 1))

\* `0 < 2 < 1` compared false at its second pair
C20_Witness ==
    /\ Evaluated
    /\ Tree = Node("Compare", "", <<Constant(IntV(0)), Constant(IntV(2)), Constant(IntV(1))>>,
                  <<"<", "<">>)
    /\ Outcome = Value(BoolV(FALSE), <<>>)

(***************************************************************************)
(* Properties of the rename and cast stages                                *)
(***************************************************************************)
\* the name a key of the record has after the renaming
Renamed(mapping, k) ==
    IF \E i \in 1..Len(mapping) : mapping[i][1] = k
    THEN mapping[CHOOSE i \in 1..Len(mapping) : mapping[i][1] = k][2]
    ELSE k

\* among the keys of the record that end up under the name n, the one
\* applied last in the iteration order of the mapping (an unmapped key only
\* when no mapped key lands on its name)
LastApplied(mapping, rec, n) ==
    LET mapped == {i \in 1..Len(mapping) :
                      mapping[i][1] \in DOMAIN rec /\ mapping[i][2] = n}
    IN IF mapped = {} THEN n
       ELSE mapping[CHOOSE i \in mapped : \A j \in mapped : j <= i][1]

\* C21: RenameTransform.apply builds a new record and leaves its input as it
\* was; the keys of the result are the keys of the input, each replaced by
\* its target if the mapping has one; the value under a name is the value of
\* the key that lands on it, and when several keys land on one name, of the
\* one applied last in the iteration order of the mapping, whatever the order
\* of the fields in the record.
C21_RenameLastInMappingOrder ==
    StageCalled("rename") =>
        LET m == stage.source
            in == Dict(stage.input[1])
            out == Dict(stage.result[1])
        IN /\ stage.after = stage.input
           /\ DOMAIN out = {Renamed(m, k) : k \in DOMAIN in}
           /\ \A n \in DOMAIN out : out[n] = in[LastApplied(m, in, n)]
           /\ \A o \in Orders(DOMAIN in) :
                 Len(o) = Len(stage.input[1]) =>
                    Dict(RenameApply(m, [i \in 1..Len(o) |-> <<o[i], in[o[i]]>>], <<>>)) = out


\* C22: CastTransform.apply, for a configuration of known type names,
\* coerces exactly the configured columns that are present and not None,
\* leaves missing columns absent, None values None and every other field as
\* it was, never writes into its input, and when a coercion fails raises an
\* error that names a failing column, its original value and its target
\* type, returning no record.
C22_CastNamesFailure ==
    (StageCalled("cast") /\ \A i \in 1..Len(stage.source) : stage.source[i][2] \in {"int", "str"}) =>
        LET columns == Dict(stage.source)
            in == stage.input[1]
            r == stage.result[1]
            coerced == {c \in DOMAIN columns : c \in DOMAIN in /\ in[c] # NoneV}
            failing == {c \in coerced : columns[c] = "int" /\ ~IntCastable(in[c])}
        IN /\ stage.after[1] = in
           /\ failing = {} =>
                 /\ r.out = "record"
                 /\ DOMAIN r.rec[1] = DOMAIN in
                 /\ \A c \in DOMAIN in :
                       r.rec[1][c] = IF c \in coerced THEN CastOne(columns[c], in[c]) ELSE in[c]
           /\ failing # {} =>
                 /\ r.out = "raise"
                 /\ r.error.column \in failing
                 /\ r.error.value = <<in[r.error.column]>>
                 /\ r.error.target = columns[r.error.column]


(***************************************************************************)
(* Properties of the load calls                                            *)
(***************************************************************************)
\* the sum of the counts the load calls returned
RECURSIVE SumReturned(_)
SumReturned(calls) ==
    IF calls = <<>> THEN 0
    ELSE (IF Head(calls).ok THEN Head(calls).n ELSE 0) + SumReturned(Tail(calls))

\* a load call returned in this step
LoadReturned ==
    /\ Len(loadCalls') = Len(loadCalls) + 1
    /\ loadCalls'[Len(loadCalls')].ok

\* records_loaded is the sum of the counts returned, not of the batch
\* lengths, and no record is in two load calls
C23_State ==
    /\ metrics.records_loaded = SumReturned(loadCalls)
    /\ \A c1, c2 \in 1..Len(loadCalls) :
          c1 # c2 => Indices(loadCalls[c1].idx) \cap Indices(loadCalls[c2].idx) = {}

\* C23 as stated: the count returned is authoritative, no record is offered
\* twice, and after every load call that returns the batch is emptied,
\* whatever count was returned.
C23_BatchEmptiedAfterEveryLoad ==
    []C23_State /\ [][LoadReturned => valid_records' = <<>>]_vars

\* a load call inside the loop empties the batch; the load call after the
\* loop leaves the list as it is and ends the try body, so that no load call
\* follows it
C23_Step ==
    /\ (LoadReturned /\ pc = "batch") => (valid_records' = <<>> /\ pc' = "pull")
    /\ (LoadReturned /\ pc = "final") => (valid_records' = valid_records /\ pc' = "finally")
    /\ LoadReturned => pc \in {"batch", "final"}
    /\ pc \in {"finally", "returned", "raised", "exit"} => loadCalls' = loadCalls

\* C23 (amended): records_loaded is always the sum of the counts returned by
\* the load calls; no record appears in two load calls, whatever was
\* returned: a load call inside the loop empties the batch, and the load
\* call after the loop, which does not, is the last one of the run.
C23_CountAuthoritative == []C23_State /\ [][C23_Step]_vars

\* a completed run whose two load calls accepted fewer records than offered
C23_Witness ==
    /\ Completed
    /\ Len(loadCalls) = 2
    /\ loadCalls[1].n < Len(loadCalls[1].recs)
    /\ loadCalls[2].n = 0
    /\ valid_records # <<>>
    /\ metrics.records_loaded = 1
    /\ metrics.records_valid = 3


(***************************************************************************)
(* Properties of CSVWriterLoader                                           *)
(***************************************************************************)
\* the records of the batches passed to load, in call order
RECURSIVE Passed(_)
Passed(calls) ==
    IF calls = <<>> THEN <<>> ELSE Head(calls).records \o Passed(Tail(calls))

\* the header: the keys of the first record ever passed
HeaderOf(calls) == [i \in 1..Len(Passed(calls)[1]) |-> Passed(calls)[1][i][1]]

\* every record passed holds keys of the header only
WithinHeader(calls) ==
    \A r \in 1..Len(Passed(calls)) : writerow(HeaderOf(calls), Passed(calls)[r]) # <<>>

\* the header row once, then one row for every record passed, in call order
HeaderAndRows(calls) ==
    <<[kind |-> "header", cells |-> HeaderOf(calls)]>>
    \o [r \in 1..Len(Passed(calls)) |-> writerow(HeaderOf(calls), Passed(calls)[r])[1]]

\* load calls only, then one close
LoadsThenClose(calls) ==
    /\ calls # <<>>
    /\ \A c \in 1..Len(calls) : (calls[c].op = "close") = (c = Len(calls))

\* what a history of loads then close leaves: every load returned the length
\* of its batch; no file if every batch was empty, else the header and rows
Written(calls) ==
    /\ \A c \in 1..(Len(calls) - 1) : calls[c].ret = <<Len(calls[c].records)>>
    /\ IF Passed(calls) = <<>> THEN ~loader.exists
       ELSE loader.exists /\ loader.disk = HeaderAndRows(calls)

\* a load of an empty batch returns 0 and leaves the loader and the file alone
EmptyLoad ==
    (Len(loader'.calls) = Len(loader.calls) + 1
       /\ loader'.calls[Len(loader'.calls)].op = "load"
       /\ loader'.calls[Len(loader'.calls)].records = <<>>) =>
        /\ loader'.calls[Len(loader'.calls)].ret = <<0>>
        /\ [loader' EXCEPT !.calls = loader.calls] = loader

C30_RowsNeverLost ==
    (Passed(loader.calls) # <<>> /\ WithinHeader(loader.calls)) =>
        /\ loader.exists
        /\ loader.disk = HeaderAndRows(loader.calls)


(***************************************************************************)
(* Properties of APIExtractor                                              *)
(***************************************************************************)
\* the URL a fetched page names as the next one, <<>> when it names none:
\* the first rel="next" entry of the Link header, else a truthy next,
\* next_url or next_page of the body, else the page's own URL with offset
\* advanced by limit when offset pagination is configured and the body is a
\* list of at least limit items
NextOf(page) ==
    LET link == page.response.link
        data == page.response.data
        pagination == extractor.pagination
        Nexts == {i \in DOMAIN link : link[i].rel = "next"}
        Names(key) == /\ data.t = "dict"
                       /\ key \in DOMAIN data.v
                       /\ data.v[key].t = "str"
        limit == IF pagination[1].limit = <<>> THEN 100
                 ELSE pagination[1].limit[1]
    IN  IF Nexts # {}
        THEN <<link[CHOOSE i \in Nexts : \A j \in Nexts : i <= j].url>>
        ELSE IF Names("next") THEN data.v["next"].v
        ELSE IF Names("next_url") THEN data.v["next_url"].v
        ELSE IF Names("next_page") THEN data.v["next_page"].v
        ELSE IF /\ pagination # <<>>
                /\ pagination[1].type = "offset"
                /\ data.t = "list"
                /\ Len(data.v) >= limit
             THEN <<[path |-> page.url.path,
                     offset |-> limit + (IF page.url.offset = -1 THEN 0
                                         ELSE page.url.offset),
                     limit |-> limit]>>
        ELSE <<>>

\* the records of the first n fetched pages, in page order
RECURSIVE Pages(_)
Pages(n) ==
    IF n = 0 THEN <<>>
    ELSE Pages(n - 1) \o PageRecords(extractor.fetched[n].response.data)

\* a page of offset pagination that is shorter than limit and names no next
\* URL in its header or body
ShortPage(page) ==
    /\ extractor.pagination # <<>>
    /\ extractor.pagination[1].type = "offset"
    /\ extractor.pagination[1].limit # <<>>
    /\ page.response.data.t = "list"
    /\ Len(page.response.data.v) < extractor.pagination[1].limit[1]
    /\ \A i \in DOMAIN page.response.link : page.response.link[i].rel # "next"

C25_State ==
    LET fetched == extractor.fetched
        n == Len(fetched)
    IN  /\ n > 0 => fetched[1].url = NewExtractor(<<>>).next[1]
        /\ \A i \in 1..(n - 1) : <<fetched[i + 1].url>> = NextOf(fetched[i])
        /\ n > 0 => extractor.next = NextOf(fetched[n])
        /\ extractor.yielded \o extractor.pending = Pages(n)
        /\ n > 0 => Len(extractor.pending)
                        <= Len(PageRecords(fetched[n].response.data))
        /\ (n > 0 /\ ShortPage(fetched[n])) => extractor.next = <<>>

C25_Step ==
    /\ extractor'.fetched # extractor.fetched =>
          /\ extractor.pending = <<>>
          /\ extractor.next # <<>>
          /\ extractor'.fetched =
                Append(extractor.fetched,
                       extractor'.fetched[Len(extractor'.fetched)])
          /\ extractor'.yielded = extractor.yielded
    /\ extractor'.yielded # extractor.yielded =>
          /\ extractor.pending # <<>>
          /\ extractor'.yielded = Append(extractor.yielded, Head(extractor.pending))
          /\ extractor'.fetched = extractor.fetched
    /\ extractor.next = <<>> =>
          /\ extractor'.next = <<>>
          /\ extractor'.fetched = extractor.fetched

\* C25: extract fetches the extractor's URL first and then, page after page,
\* the URL the page before names as next (Link header entry rel="next",
\* else a truthy body field next / next_url / next_page, else with offset
\* pagination and a list body of at least limit items the page's URL with
\* offset advanced by limit); a page is fetched once, only when the records
\* of the page before are all yielded, and the records come in page order;
\* once a page names no next URL (with offset pagination: the first page
\* shorter than limit) nothing more is fetched and the generator ends after
\* that page's records.
C25_FollowsPagination ==
    /\ []C25_State
    /\ [][C25_Step]_vars
    /\ (extractor.next = <<>>) ~> (extractor.next = <<>> /\ extractor.pending = <<>>)

\* offset pagination with limit 2: a page whose header and body both name a
\* next URL is followed by the page of the header's URL, which is a list of
\* one record, and the extraction has ended with the records of both pages
C25_Witness ==
    /\ Len(extractor.fetched) = 2
    /\ extractor.pagination = <<[type |-> "offset", limit |-> <<2>>]>>
    /\ extractor.fetched[1].response.data.t = "dict"
    /\ "next" \in DOMAIN extractor.fetched[1].response.data.v
    /\ extractor.fetched[1].response.data.v["next"].t = "str"
    /\ Len(extractor.fetched[1].response.link) = 2
    /\ extractor.fetched[2].url.path = "l"
    /\ extractor.fetched[2].response.data.t = "list"
    /\ Len(extractor.fetched[2].response.data.v) = 1
    /\ extractor.next = <<>>
    /\ extractor.pending = <<>>
    /\ Len(extractor.yielded) = 2


(***************************************************************************)
(* Properties of the records a run keeps                                   *)
(***************************************************************************)
\* the records the Pipeline holds: the one in flight, the batch, and the
\* records kept with their errors in metrics.errors
Retained == Len(current) + Len(valid_records) + Len(metrics.errors)

BatchBounded ==
    config.batch_size >= 1 =>
        /\ Len(valid_records) <= config.batch_size
        /\ pc = "pull" => Len(valid_records) < config.batch_size

\* C26: at every point of a run the Pipeline retains at most the one
\* in-flight record plus the batch; with batch size B >= 1 the batch holds
\* at most B records, and fewer than B at every pull.
C26_RetainsInflightAndBatch ==
    /\ Retained <= 1 + Len(valid_records)
    /\ BatchBounded


(***************************************************************************)
(* Properties of the counters                                              *)
(***************************************************************************)
\* the valid records not yet passed to a load call that returned
Pending == WithFate({"batched"})

\* the extraction indices of the records passed to the load calls
Handed(calls) == UNION {Indices(loadCalls[c].idx) : c \in calls}

C27_State ==
    (pc = "pull" \/ Completed \/ Failed) =>
        /\ metrics.records_extracted >= metrics.records_transformed
        /\ metrics.records_transformed
              = metrics.records_valid + metrics.records_invalid
        /\ metrics.records_valid
              = metrics.records_loaded + Cardinality(Pending)
        /\ (pc = "pull" \/ Failed) =>
              /\ Pending = Indices(batchIdx)
              /\ Len(valid_records) = Cardinality(Pending)
        /\ Completed =>
              /\ Pending = {}
              /\ metrics.records_loaded = metrics.records_valid
        /\ Failed =>
              /\ metrics.records_valid - metrics.records_loaded
                    = Len(valid_records)
              /\ Pending \cap Handed({c \in DOMAIN loadCalls : loadCalls[c].ok}) = {}
              /\ exc # "loader" => Pending \cap Handed(DOMAIN loadCalls) = {}

C27_Step == Failed => (loadCalls' = loadCalls /\ metrics' = metrics)

DedupAt == {d \in DOMAIN seen : Transforms[d].type = "deduplicate"}

\* the key tuple of an extracted record when it reaches stage d
KeyAt(d, src) ==
    KeyTuple(Transforms[d].key,
             ChainOutcome(SubSeq(Transforms, 1, d - 1), src).rec[1])

\* the records that passed stage d and are in flight, in the batch, or in a
\* batch passed to the loader
Live(d) ==
    (IF current # <<>> /\ pc \in {"chain", "validate"} /\ stageIdx > d
     THEN {[i |-> pulled, src |-> origin]} ELSE {})
    \cup {batchIdx[j] : j \in DOMAIN batchIdx}
    \cup UNION {{loadCalls[c].idx[j] : j \in DOMAIN loadCalls[c].idx} :
                    c \in DOMAIN loadCalls}

LiveKeys(d) == {KeyAt(d, x.src) : x \in Live(d)}

C28_State ==
    \A d \in DedupAt :
        /\ \A x, y \in Live(d) : KeyAt(d, x.src) = KeyAt(d, y.src) => x.i = y.i
        /\ LiveKeys(d) \subseteq seen[d]

C28_Step ==
    \A d \in DedupAt :
        LET key == KeyTuple(Transforms[d].key, current[1])
        IN  /\ IF pc = "chain" /\ current # <<>> /\ stageIdx = d
               THEN /\ seen'[d] = seen[d] \cup {key}
                    /\ key \in seen[d] => current' = <<>>
                    /\ key \notin seen[d] => current' = current
               ELSE seen'[d] = seen[d]
            /\ \A k \in seen[d] : k \notin LiveKeys(d) => k \notin LiveKeys(d)'

\* C28: in a pipeline with a Deduplicate stage the records that passed the
\* stage and are in flight, batched or passed to the loader have pairwise
\* different key tuples, all registered; the stage registers the key of
\* every record that reaches it, drops the record when the key was
\* registered before and passes it otherwise; no other step registers a key
\* (a record dropped by an earlier stage does not reach the stage); and a
\* registered key whose record was dropped by a later stage or rejected by
\* the validator never gets a record passed to the loader.
C28_FirstPerKeyOnly == []C28_State /\ [][C28_Step]_vars

\* Deduplicate before a filter: the first record with key 1 was dropped by
\* the filter, the second one, which the filter would keep, is dropped by
\* Deduplicate
C28_Witness ==
    /\ config.transforms = <<DedupK, FilterV>>
    /\ pulled = 2
    /\ fate = <<"dropped", "inflight">>
    /\ origin = [k |-> IntV(1), v |-> IntV(1)]
    /\ pc = "chain"
    /\ current = <<>>
    /\ applied = <<1>>
    /\ seen[1] = {<<IntV(1)>>}


(***************************************************************************)
(* Properties of a batch size below 1                                      *)
(***************************************************************************)
\* the extraction indices of the valid records of the run, in order
RECURSIVE ValidIndices(_)
ValidIndices(n) ==
    IF n = 0 THEN <<>>
    ELSE ValidIndices(n - 1)
            \o (IF fate[n] \in {"batched", "loaded"} THEN <<n>> ELSE <<>>)

C29_State ==
    config.batch_size <= 0 =>
        /\ \A c \in DOMAIN loadCalls : Len(loadCalls[c].recs) = 1
        /\ pc = "batch" => (Len(valid_records) = 1 /\ BatchFull)
        /\ pc \in {"pull", "chain", "validate", "final"} => valid_records = <<>>
        /\ Completed =>
              /\ \A c \in DOMAIN loadCalls : loadCalls[c].ok
              /\ [c \in DOMAIN loadCalls |-> loadCalls[c].idx[1].i]
                    = ValidIndices(Len(fate))
              /\ metrics.records_loaded = metrics.records_valid
        /\ exc \in {"", "setup", "extractor", "stage", "loader"}

C29_Step ==
    (config.batch_size <= 0 /\ pc = "batch") =>
        /\ Len(loadCalls') = Len(loadCalls) + 1
        /\ loadCalls'[Len(loadCalls')].recs = valid_records
        /\ pc' = "finally" <=> ~loadCalls'[Len(loadCalls')].ok

\* C29: with a batch_size of 0 or below, every valid record is passed to the
\* loader at once in a load call of its own (every load call has size 1 and
\* the batch is empty at every pull), the final flush finds the batch
\* empty, a completed run passed every valid record to load exactly once,
\* in order, and the run is aborted only by an error of the setup, of the
\* extractor, of a stage or of the loader.
C29_NonPositiveBatchSize == []C29_State /\ [][C29_Step]_vars

\* a completed run with batch_size -1 that loaded two records one by one
\* and rejected or dropped a third
C29_Witness ==
    /\ config.batch_size = -1
    /\ Completed
    /\ Len(loadCalls) = 2
    /\ Len(fate) = 3
    /\ metrics.records_loaded = 2

====
